---- MODULE Spec2Model ----
(***************************************************************************)
(* Model of the ums-service mode-switch orchestrator.                      *)
(*                                                                         *)
(*   internal/service/service.go   Service: handleModeChange, switchToUMS, *)
(*                                 switchToNormal, onDeviceDetached,       *)
(*                                 doSwitchToNormal, detachLoop            *)
(*   pkg/usb (controller with the detach channel)                          *)
(*                                 Controller: SwitchMode, monitorLoop     *)
(*   pkg/disk/manager.go           Manager: Mount, Unmount, CleanDrive     *)
(*   pkg/dbc/interface.go          Interface: Enable, Disable              *)
(*   pkg/update, pkg/maps          ProcessUpdates, ProcessMaps             *)
(*                                                                         *)
(* Two goroutines enter the service: the bus reader (the HashWatcher       *)
(* callback handleModeChange) and the detach consumer (detachLoop ->       *)
(* onDeviceDetached).  A third, the controller's monitorLoop, polls the    *)
(* UDC state and feeds the detach channel.  Every call to an external      *)
(* program (modprobe, rmmod, mount, umount, keycard.sh, scp, ssh) is a     *)
(* nondeterministic choice between success and failure.                    *)
(***************************************************************************)
EXTENDS Integers, Sequences, FiniteSets, TLC

VARIABLES
    currentMode,    \* Controller.currentMode
    etherLoaded,    \* kernel: g_ether is loaded
    msLoaded,       \* kernel: g_mass_storage is loaded
    mounted,        \* the backing image is mounted at Manager.mountPoint
    umsModeType,    \* Service.umsModeType
    detachCount,    \* Service.detachCount
    mu,             \* Service.mu: "free" or the goroutine holding it
    pc,             \* position of each service goroutine
    req,            \* handleModeChange's parameter mode
    prevMode,       \* the local prevMode of each goroutine
    needDBC,        \* switchToNormal's local needDBC, per goroutine
    diskFiles,      \* kinds of files the scan and the stage-ins find on the disk
    dbcEnabled,     \* Interface.enabled
    dbcLink,        \* the link to the DBC is up (brought up by keycard.sh)
    status,         \* last value published to usb.status ("none" before any)
    trace,          \* calls made by the transition in flight, in order
    detachCh,       \* number of events buffered in Controller.detachCh
    monPc,          \* position of monitorLoop inside one tick
    wasConfigured,  \* monitorLoop's local wasConfigured
    udcConfigured,  \* the UDC state file reads "configured"
    changed,        \* switchToNormal's locals settingsChanged and wgChanged
    sessionDetaches,\* detaches processed since the gadget last entered ums
    seen,           \* what predates the gadget's last change of mode: the event
                    \* in detachCh (oldCh), the event detachLoop has taken
                    \* (oldHeld); cfgHere: wasConfigured was set since then
    ctl,            \* record of the last direct SwitchMode call (SpecCtl)
    stageErr,       \* err of the file-stage call just made, as the if that
                    \* logs it sees it
    upd,            \* record of the last direct ProcessUpdates call (SpecUpd)
    run,            \* the process: root context done, monitorRunning, exited
    sett,           \* settings.toml on the disk and in /data, and the runs of
                    \* CopyFromUSB made on them (SpecSett)
    wg,             \* record of the last direct SyncFromUSB call (SpecWg)
    dbc,            \* HTTP servers running and the direct calls made on the
                    \* DBC interface (SpecDbc)
    lk,             \* the goroutines at their locks: Service.mu, Controller.mu,
                    \* the monitor loops and their stop channels (SpecLock)
    stage,          \* record of one direct run of switchToNormal's file
                    \* stage-ins and CleanDrive (SpecStage)
    cv,             \* the orchestrator with the bus closed into a loop: the
                    \* mode field, the values on their way to the callback,
                    \* the two goroutines at the lock (SpecConv)
    hostFiles       \* files a host wrote to the disk image: "none", "current"
                    \* (this UMS session) or "earlier" (a session now over)

vars == << currentMode, etherLoaded, msLoaded, mounted, umsModeType,
           detachCount, mu, pc, req, prevMode, needDBC, diskFiles,
           dbcEnabled, dbcLink, status, trace, detachCh, monPc, wasConfigured,
           udcConfigured, changed, sessionDetaches, seen, ctl, stageErr, upd, run, sett, wg, dbc,
           lk, stage, cv, hostFiles >>

\* ------------------------------------------------------------------ bounds

\* sessionDetaches saturates here; it only observes, it never blocks a step.
MaxSessionDetaches == 3

\* capacity of Controller.detachCh: make(chan struct{}, 1)
DetachChCap == 1

\* --------------------------------------------------------------- constants

Threads == {"bus", "detach"}

\* values the bus may deliver for usb.mode: the three known modes, an
\* unknown word and the empty string
Requests == {"ums", "ums-by-dbc", "normal", "bogus", ""}

\* targets given to Controller.SwitchMode when it is exercised on its own
Targets == {"ums", "normal", "ums-by-dbc", "bogus"}

\* kinds of files a host can leave on the disk that decide which DBCProxy
\* calls a return to normal makes:
\*   dbc      system-update/librescoot-dbc*.mender
\*   dbcDelta system-update/librescoot-dbc*.delta
\*   map      maps/*.mbtiles or maps/*tiles.tar
FileKinds == {"dbc", "dbcDelta", "map"}

NoChange == [settings |-> FALSE, wg |-> FALSE]

\* a file that does not exist
Absent == "absent"

\* number of consecutive CopyFromUSB runs made on one disk
MaxStageIns == 2

NoSett == [started |-> FALSE, disk |-> Absent, local |-> Absent, runs |-> << >>]

NoWg == [called |-> FALSE]
NoStage == [called |-> FALSE]

\* writes of usb.mode by other parties in one run
MaxExtWrites == 3

\* after New and Run: gadget in normal mode, nothing published, the mode
\* field normal, nothing on its way to the callback
NoCv == [mode |-> "normal", type |-> "", count |-> 0, status |-> "none",
         busMode |-> "normal", q |-> << >>, ext |-> 0,
         mu |-> "free", pc |-> [t \in {"bus", "detach"} |-> "idle"], req |-> "",
         ch |-> 0, sampling |-> FALSE, published |-> FALSE, contended |-> ""]

\* StartMonitoring calls that start a loop in one run
MaxStarts == 2

\* the monitor loops, in the order they are started
LoopName == << "loop1", "loop2", "loop3" >>
Loops == { LoopName[i] : i \in 1..MaxStarts }

\* the goroutines that take locks: the bus callback, detachLoop, the
\* caller of StartMonitoring and StopMonitoring, and the monitor loops
Goroutines == {"bus", "detach", "api"} \cup Loops

\* after NewController: locks free, no loop, stopMonitor the channel made
\* by the constructor (0), detachCh empty
NoLk == [smu |-> "free", cmu |-> "free",
         pc |-> [g \in Goroutines |->
                   IF g \in Loops THEN "none" ELSE IF g = "detach" THEN "recv" ELSE "idle"],
         sel |-> [l \in Loops |-> 0],
         ch |-> 0, monitorRunning |-> FALSE, stopMonitor |-> 0, closed |-> {},
         starts |-> 0]

NoUpd == [called |-> FALSE, entries |-> << >>, enabled |-> FALSE, out |-> << >>,
          ops |-> << >>, err |-> FALSE]

NoCall == [called |-> FALSE, target |-> "", before |-> "", etherBefore |-> FALSE,
           msBefore |-> FALSE, err |-> FALSE, ops |-> << >>, loadOk |-> FALSE,
           unloadOk |-> FALSE]

\* ------------------------------------------------- Controller.SwitchMode

\* rmmod <module>: a module that is not loaded reports "not currently
\* loaded", which unloadModule turns into success.
unloadModule(loaded, ok) ==
    IF ~loaded THEN [loaded |-> FALSE, err |-> FALSE]
    ELSE IF ok THEN [loaded |-> FALSE, err |-> FALSE]
    ELSE [loaded |-> TRUE, err |-> TRUE]

\* modprobe <module> <params>
loadModule(loaded, ok) ==
    IF ok THEN [loaded |-> TRUE, err |-> FALSE]
    ELSE [loaded |-> loaded, err |-> TRUE]

\* Controller.switchToUMS: unload g_ether (failure only warned), load
\* g_mass_storage (failure returned).
ctlSwitchToUMS(ether, ms, unloadOk, loadOk) ==
    LET u == unloadModule(ether, unloadOk)
        l == loadModule(ms, loadOk)
    IN  [ether |-> u.loaded, ms |-> l.loaded, err |-> l.err,
         ops |-> << "rmmod g_ether", "modprobe g_mass_storage" >>]

\* Controller.switchToNormal: unload g_mass_storage (failure only warned),
\* load g_ether (failure returned).
ctlSwitchToNormal(ether, ms, unloadOk, loadOk) ==
    LET u == unloadModule(ms, unloadOk)
        l == loadModule(ether, loadOk)
    IN  [ether |-> l.loaded, ms |-> u.loaded, err |-> l.err,
         ops |-> << "rmmod g_mass_storage", "modprobe g_ether" >>]

\* A faulty SwitchMode that records the target before the module is loaded.
SwitchModeEager(cur, ether, ms, target, unloadOk, loadOk) ==
    IF cur = target
    THEN [mode |-> cur, ether |-> ether, ms |-> ms, err |-> FALSE, ops |-> << >>]
    ELSE IF target = "ums"
    THEN LET r == ctlSwitchToUMS(ether, ms, unloadOk, loadOk)
         IN  [mode |-> target, ether |-> r.ether, ms |-> r.ms,
              err |-> r.err, ops |-> r.ops]
    ELSE IF target = "normal"
    THEN LET r == ctlSwitchToNormal(ether, ms, unloadOk, loadOk)
         IN  [mode |-> target, ether |-> r.ether, ms |-> r.ms,
              err |-> r.err, ops |-> r.ops]
    ELSE [mode |-> cur, ether |-> ether, ms |-> ms, err |-> TRUE, ops |-> << >>]

\* Controller.SwitchMode(target): the new currentMode, the modules loaded
\* afterwards, whether an error is returned, and the module commands run.
SwitchMode(cur, ether, ms, target, unloadOk, loadOk) ==
    IF cur = target
    THEN [mode |-> cur, ether |-> ether, ms |-> ms, err |-> FALSE, ops |-> << >>]
    ELSE IF target = "ums"
    THEN LET r == ctlSwitchToUMS(ether, ms, unloadOk, loadOk)
         IN  [mode |-> IF r.err THEN cur ELSE target,
              ether |-> r.ether, ms |-> r.ms, err |-> r.err, ops |-> r.ops]
    ELSE IF target = "normal"
    THEN LET r == ctlSwitchToNormal(ether, ms, unloadOk, loadOk)
         IN  [mode |-> IF r.err THEN cur ELSE target,
              ether |-> r.ether, ms |-> r.ms, err |-> r.err, ops |-> r.ops]
    ELSE [mode |-> cur, ether |-> ether, ms |-> ms, err |-> TRUE, ops |-> << >>]

\* sessionDetaches follows the gadget: it restarts whenever the gadget
\* enters or leaves ums and is otherwise left to the detach handler.
SessionAfter(before, after, n) == IF before # after THEN 0 ELSE n

\* nothing pending and nothing sampled
NothingSeen == [oldCh |-> FALSE, oldHeld |-> FALSE, cfgHere |-> FALSE]

\* seen follows the gadget too: when SwitchMode changes the mode, the event
\* in the channel and the event detachLoop has received are from before,
\* and so is whatever the monitor has in wasConfigured
SeenAfter(before, after) ==
    IF before # after
    THEN [oldCh |-> detachCh > 0, oldHeld |-> pc["detach"] \in {"lock", "locked"},
          cfgHere |-> FALSE]
    ELSE seen

\* ------------------------------------------------------------------- Init

Init ==
    /\ currentMode = "normal"
    /\ etherLoaded = TRUE
    /\ msLoaded = FALSE
    /\ mounted = FALSE
    /\ umsModeType = ""
    /\ detachCount = 0
    /\ mu = "free"
    /\ pc = [t \in Threads |-> "idle"]
    /\ req = ""
    /\ prevMode = [t \in Threads |-> ""]
    /\ needDBC = [t \in Threads |-> FALSE]
    /\ diskFiles = {}
    /\ dbcEnabled = FALSE
    /\ dbcLink = FALSE
    /\ status = "none"
    /\ trace = << >>
    /\ detachCh = 0
    /\ monPc = "wait"
    /\ wasConfigured = FALSE
    /\ udcConfigured = FALSE
    /\ changed = [t \in Threads |-> NoChange]
    /\ sessionDetaches = 0
    /\ seen = NothingSeen
    /\ ctl = NoCall
    /\ stageErr = FALSE
    /\ upd = NoUpd
    /\ run = [ctxDone |-> FALSE, monitorRunning |-> TRUE, exited |-> FALSE]
    /\ sett = NoSett
    /\ wg = NoWg
    /\ dbc = [servers |-> 0, hist |-> << >>]
    /\ hostFiles = "none"
    /\ lk = NoLk
    /\ stage = NoStage
    /\ cv = NoCv

\* ---------------------------------------------------------------- helpers

SetPc(t, p) == pc' = [pc EXCEPT ![t] = p]

Emit(es) == trace' = trace \o es

\* Service.setStatus: a synchronous write of usb.status.  In the trace a
\* publication is "status:<value>"; the value switchToUMS or switchToNormal
\* returns is "return:nil" or "return:error".
setStatus(s) == status' = s

kernel == << currentMode, etherLoaded, msLoaded, sessionDetaches, seen >>
direct == << ctl, upd, run, sett, wg, dbc, lk, stage, cv >>
harness == << direct, hostFiles >>
monitor == << monPc, wasConfigured, udcConfigured >>
locals == << req, prevMode, needDBC, changed >>
counters == << umsModeType, detachCount >>

\* ------------------------------------------------------- lock and delivery

\* The HashWatcher delivers a value of usb.mode to the callback registered
\* with OnField("mode", ...).
BusDeliver(m) ==
    /\ pc["bus"] = "idle"
    /\ req' = m
    /\ SetPc("bus", "lock")
    /\ UNCHANGED << kernel, monitor, counters, mounted, mu, prevMode, needDBC,
                    changed, diskFiles, dbcEnabled, dbcLink, status, trace, detachCh, harness, stageErr >>

\* detachLoop: receive one event from Controller.DetachCh()
detachLoop ==
    /\ pc["detach"] = "idle"
    /\ detachCh > 0
    /\ detachCh' = detachCh - 1
    /\ seen' = [seen EXCEPT !.oldHeld = seen.oldCh, !.oldCh = FALSE]
    /\ SetPc("detach", "lock")
    /\ UNCHANGED << currentMode, etherLoaded, msLoaded, sessionDetaches, monitor, counters, locals, mounted, mu, diskFiles,
                    dbcEnabled, dbcLink, status, trace, harness, stageErr >>

\* A lock that does not wait for the holder to release it.
LockNoWait(t) ==
    /\ pc[t] = "lock"
    /\ mu' = t
    /\ SetPc(t, "locked")
    /\ UNCHANGED << kernel, monitor, counters, locals, mounted, diskFiles,
                    dbcEnabled, dbcLink, status, trace, detachCh, harness, stageErr >>

\* s.mu.Lock() at the head of handleModeChange and onDeviceDetached
Lock(t) ==
    /\ pc[t] = "lock"
    /\ mu = "free"
    /\ mu' = t
    /\ SetPc(t, "locked")
    /\ UNCHANGED << kernel, monitor, counters, locals, mounted, diskFiles,
                    dbcEnabled, dbcLink, status, trace, detachCh, harness, stageErr >>

\* the deferred s.mu.Unlock(); the goroutine's locals die with the call
Unlock(t) ==
    /\ pc[t] = "ret"
    /\ mu' = "free"
    /\ SetPc(t, "idle")
    /\ req' = IF t = "bus" THEN "" ELSE req
    /\ prevMode' = [prevMode EXCEPT ![t] = ""]
    /\ needDBC' = [needDBC EXCEPT ![t] = FALSE]
    /\ changed' = [changed EXCEPT ![t] = NoChange]
    /\ diskFiles' = {}
    /\ trace' = << >>
    /\ UNCHANGED << kernel, monitor, counters, mounted, dbcEnabled, dbcLink, status,
                    detachCh, harness, stageErr >>

\* ------------------------------------------------------- handleModeChange

\* A faulty decision that takes an unknown mode for a request to leave.
DispatchUnknownAsNormal(cur, mode) ==
    IF cur = mode THEN "ret"
    ELSE IF mode \in {"ums", "ums-by-dbc"} THEN "u_preparing"
    ELSE "n_switch"

\* handleModeChange's decision: where the call goes for the current gadget
\* mode and the requested mode ("ret": return without a transition).
Dispatch(cur, mode) ==
    IF cur = mode THEN "ret"
    ELSE IF mode \in {"ums", "ums-by-dbc"} THEN "u_preparing"
    ELSE IF mode = "normal" THEN "n_switch"
    ELSE "ret"

handleModeChange ==
    /\ pc["bus"] = "locked"
    /\ prevMode' = [prevMode EXCEPT !["bus"] = currentMode]
    /\ SetPc("bus", Dispatch(currentMode, req))
    /\ trace' = IF Dispatch(currentMode, req) = "u_preparing" THEN << "switchToUMS" >>
                ELSE IF Dispatch(currentMode, req) = "n_switch" THEN << "switchToNormal" >>
                ELSE << >>
    /\ UNCHANGED << kernel, monitor, counters, mounted, mu, req, needDBC, changed,
                    diskFiles, dbcEnabled, dbcLink, status, detachCh, harness, stageErr >>

\* ------------------------------------------------------------ switchToUMS

\* s.setStatus("preparing")
U_Preparing ==
    /\ pc["bus"] = "u_preparing"
    /\ setStatus("preparing")
    /\ Emit(<< "status:preparing" >>)
    /\ SetPc("bus", "u_mount")
    /\ UNCHANGED << kernel, monitor, counters, locals, mounted, mu, diskFiles,
                    dbcEnabled, dbcLink, detachCh, harness, stageErr >>

\* s.diskMgr.Mount(); on failure status idle and return
U_Mount ==
    /\ pc["bus"] = "u_mount"
    /\ \E ok \in BOOLEAN :
         IF ok
         THEN /\ mounted' = TRUE
              /\ Emit(<< "mount:ok" >>)
              /\ SetPc("bus", "u_settings")
              /\ UNCHANGED status
         ELSE /\ setStatus("idle")
              /\ Emit(<< "mount:fail", "status:idle", "return:error" >>)
              /\ SetPc("bus", "ret")
              /\ UNCHANGED mounted
    /\ UNCHANGED << kernel, monitor, counters, locals, mu, diskFiles,
                    dbcEnabled, dbcLink, detachCh, harness, stageErr >>

\* A faulty stage-out whose error ends switchToUMS the way a failed mount
\* does.
StageOutAborting(from, call, to) ==
    /\ pc["bus"] = from
    /\ \E ok \in BOOLEAN :
         /\ stageErr' = ~ok
         /\ IF ok
            THEN /\ Emit(<< call >>)
                 /\ SetPc("bus", to)
                 /\ UNCHANGED status
            ELSE /\ setStatus("idle")
                 /\ Emit(<< call, "status:idle", "return:error" >>)
                 /\ SetPc("bus", "ret")
    /\ UNCHANGED << kernel, monitor, counters, locals, mounted, mu, diskFiles,
                    dbcEnabled, dbcLink, detachCh, harness >>

\* One stage-out call of switchToUMS; its error is logged, never returned.
StageOut(from, call, to) ==
    /\ pc["bus"] = from
    /\ \E ok \in BOOLEAN : stageErr' = ~ok
    /\ Emit(<< call >>)
    /\ SetPc("bus", to)
    /\ UNCHANGED << kernel, monitor, counters, locals, mounted, mu, diskFiles,
                    dbcEnabled, dbcLink, status, detachCh, harness >>

\* s.settingsLdr.CopyToUSB(mountPoint)
U_SettingsOut == StageOut("u_settings", "settings.CopyToUSB", "u_updprep")

\* s.updateLdr.PrepareUSB(mountPoint)
U_UpdatePrepare == StageOut("u_updprep", "update.PrepareUSB", "u_mapsprep")

\* s.mapsUpdater.PrepareUSB(mountPoint)
U_MapsPrepare == StageOut("u_mapsprep", "maps.PrepareUSB", "u_wgprep")

\* s.wgManager.PrepareUSB(mountPoint)
U_WgPrepare == StageOut("u_wgprep", "wireguard.PrepareUSB", "u_wgout")

\* s.wgManager.CopyToUSB(mountPoint)
U_WgOut == StageOut("u_wgout", "wireguard.CopyToUSB", "u_unmount")

\* An unmount step that carries on after a failed umount.
U_UnmountIgnoringFailure ==
    /\ pc["bus"] = "u_unmount"
    /\ stageErr' = FALSE
    /\ \E ok \in BOOLEAN :
         /\ mounted' = (IF ok THEN FALSE ELSE mounted)
         /\ Emit(<< IF ok THEN "unmount:ok" ELSE "unmount:fail" >>)
         /\ SetPc("bus", "u_active")
         /\ UNCHANGED status
    /\ UNCHANGED << kernel, monitor, counters, locals, mu, diskFiles,
                    dbcEnabled, dbcLink, detachCh, harness >>

\* s.diskMgr.Unmount(); on failure status idle and return
U_Unmount ==
    /\ pc["bus"] = "u_unmount"
    /\ stageErr' = FALSE
    /\ \E ok \in BOOLEAN :
         IF ok
         THEN /\ mounted' = FALSE
              /\ Emit(<< "unmount:ok" >>)
              /\ SetPc("bus", "u_active")
              /\ UNCHANGED status
         ELSE /\ setStatus("idle")
              /\ Emit(<< "unmount:fail", "status:idle", "return:error" >>)
              /\ SetPc("bus", "ret")
              /\ UNCHANGED mounted
    /\ UNCHANGED << kernel, monitor, counters, locals, mu, diskFiles,
                    dbcEnabled, dbcLink, detachCh, harness >>

\* s.setStatus("active"), before the gadget is switched
U_Active ==
    /\ pc["bus"] = "u_active"
    /\ setStatus("active")
    /\ Emit(<< "status:active" >>)
    /\ SetPc("bus", "u_switch")
    /\ UNCHANGED << kernel, monitor, counters, locals, mounted, mu, diskFiles,
                    dbcEnabled, dbcLink, detachCh, harness, stageErr >>

\* A faulty switch step that returns the error of SwitchMode("ums") and
\* leaves the status at active.
U_SwitchLeavingActive ==
    /\ pc["bus"] = "u_switch"
    /\ \E unloadOk \in BOOLEAN, loadOk \in BOOLEAN :
         LET r == SwitchMode(currentMode, etherLoaded, msLoaded, "ums", unloadOk, loadOk)
         IN  /\ currentMode' = r.mode
             /\ etherLoaded' = r.ether
             /\ msLoaded' = r.ms
             /\ sessionDetaches' = SessionAfter(currentMode, r.mode, sessionDetaches)
             /\ seen' = SeenAfter(currentMode, r.mode)
             /\ IF r.err
                THEN /\ Emit(<< "SwitchMode(ums):fail", "return:error" >>)
                     /\ SetPc("bus", "ret")
                ELSE /\ Emit(<< "SwitchMode(ums):ok" >>)
                     /\ SetPc("bus", "u_commit")
    /\ UNCHANGED << monitor, counters, locals, mounted, mu, diskFiles,
                    dbcEnabled, dbcLink, status, detachCh, harness, stageErr >>

\* s.usbCtrl.SwitchMode("ums"); on failure status idle and return
U_Switch ==
    /\ pc["bus"] = "u_switch"
    /\ \E unloadOk \in BOOLEAN, loadOk \in BOOLEAN :
         LET r == SwitchMode(currentMode, etherLoaded, msLoaded, "ums", unloadOk, loadOk)
         IN  /\ currentMode' = r.mode
             /\ etherLoaded' = r.ether
             /\ msLoaded' = r.ms
             /\ sessionDetaches' = SessionAfter(currentMode, r.mode, sessionDetaches)
             /\ seen' = SeenAfter(currentMode, r.mode)
             /\ IF r.err
                THEN /\ setStatus("idle")
                     /\ Emit(<< "SwitchMode(ums):fail", "status:idle", "return:error" >>)
                     /\ SetPc("bus", "ret")
                ELSE /\ Emit(<< "SwitchMode(ums):ok" >>)
                     /\ SetPc("bus", "u_commit")
                     /\ UNCHANGED status
    /\ UNCHANGED << monitor, counters, locals, mounted, mu, diskFiles,
                    dbcEnabled, dbcLink, detachCh, harness, stageErr >>

\* s.umsModeType = mode; s.detachCount = 0
U_Commit ==
    /\ pc["bus"] = "u_commit"
    /\ umsModeType' = req
    /\ detachCount' = 0
    /\ Emit(<< "return:nil" >>)
    /\ SetPc("bus", "ret")
    /\ UNCHANGED << kernel, monitor, locals, mounted, mu, diskFiles,
                    dbcEnabled, dbcLink, status, detachCh, harness, stageErr >>

switchToUMS ==
    \/ U_Preparing \/ U_Mount \/ U_SettingsOut \/ U_UpdatePrepare
    \/ U_MapsPrepare \/ U_WgPrepare \/ U_WgOut \/ U_Unmount \/ U_Active
    \/ U_Switch \/ U_Commit

\* --------------------------------------------------------- switchToNormal

\* where switchToNormal returns to: handleModeChange returns its error,
\* doSwitchToNormal goes on to reset detachCount
NRet(t) == IF t = "bus" THEN "ret" ELSE "d_reset"

\* what the host wrote in the UMS session is, once the gadget has left
\* ums, from an earlier session
FilesAfter(before, after, files) ==
    IF before = "ums" /\ after # "ums" /\ files = "current" THEN "earlier" ELSE files

\* A faulty first step of switchToNormal that carries on after a failed
\* SwitchMode("normal").
N_SwitchIgnoringError(t) ==
    /\ pc[t] = "n_switch"
    /\ \E unloadOk \in BOOLEAN, loadOk \in BOOLEAN :
         LET r == SwitchMode(currentMode, etherLoaded, msLoaded, "normal", unloadOk, loadOk)
         IN  /\ currentMode' = r.mode
             /\ etherLoaded' = r.ether
             /\ msLoaded' = r.ms
             /\ sessionDetaches' = SessionAfter(currentMode, r.mode, sessionDetaches)
             /\ seen' = SeenAfter(currentMode, r.mode)
             /\ hostFiles' = FilesAfter(currentMode, r.mode, hostFiles)
             /\ Emit(<< IF r.err THEN "SwitchMode(normal):fail" ELSE "SwitchMode(normal):ok" >>)
             /\ SetPc(t, "n_processing")
             /\ UNCHANGED status
    /\ UNCHANGED << monitor, counters, locals, mounted, mu, diskFiles,
                    dbcEnabled, dbcLink, detachCh, direct, stageErr >>

\* s.usbCtrl.SwitchMode("normal"); on failure return the error
N_Switch(t) ==
    /\ pc[t] = "n_switch"
    /\ \E unloadOk \in BOOLEAN, loadOk \in BOOLEAN :
         LET r == SwitchMode(currentMode, etherLoaded, msLoaded, "normal", unloadOk, loadOk)
         IN  /\ currentMode' = r.mode
             /\ etherLoaded' = r.ether
             /\ msLoaded' = r.ms
             /\ sessionDetaches' = SessionAfter(currentMode, r.mode, sessionDetaches)
             /\ seen' = SeenAfter(currentMode, r.mode)
             /\ hostFiles' = FilesAfter(currentMode, r.mode, hostFiles)
             /\ IF r.err
                THEN /\ Emit(<< "SwitchMode(normal):fail", "return:error" >>)
                     /\ SetPc(t, NRet(t))
                     /\ UNCHANGED status
                ELSE IF prevMode[t] # "ums"
                THEN /\ setStatus("idle")
                     /\ Emit(<< "SwitchMode(normal):ok", "status:idle", "return:nil" >>)
                     /\ SetPc(t, NRet(t))
                ELSE /\ Emit(<< "SwitchMode(normal):ok" >>)
                     /\ SetPc(t, "n_processing")
                     /\ UNCHANGED status
    /\ UNCHANGED << monitor, counters, locals, mounted, mu, diskFiles,
                    dbcEnabled, dbcLink, detachCh, direct, stageErr >>

\* s.setStatus("processing")
N_Processing(t) ==
    /\ pc[t] = "n_processing"
    /\ setStatus("processing")
    /\ Emit(<< "status:processing" >>)
    /\ SetPc(t, "n_mount")
    /\ UNCHANGED << kernel, monitor, counters, locals, mounted, mu, diskFiles,
                    dbcEnabled, dbcLink, detachCh, harness, stageErr >>

\* s.diskMgr.Mount(); on failure status idle and return the error
N_Mount(t) ==
    /\ pc[t] = "n_mount"
    /\ \E ok \in BOOLEAN :
         IF ok
         THEN /\ mounted' = TRUE
              /\ Emit(<< "mount:ok" >>)
              /\ SetPc(t, "n_scan")
              /\ UNCHANGED status
         ELSE /\ setStatus("idle")
              /\ Emit(<< "mount:fail", "status:idle", "return:error" >>)
              /\ SetPc(t, NRet(t))
              /\ UNCHANGED mounted
    /\ UNCHANGED << kernel, monitor, counters, locals, mu, diskFiles,
                    dbcEnabled, dbcLink, detachCh, harness, stageErr >>

\* Service.checkIfDBCNeeded: a librescoot-dbc*.mender in system-update, or
\* a *.mbtiles or *tiles.tar in maps
checkIfDBCNeeded(files) == files \cap {"dbc", "map"} # {}

\* needDBC := s.checkIfDBCNeeded(mountPoint), on whatever the host left
N_Scan(t) ==
    /\ pc[t] = "n_scan"
    /\ \E files \in SUBSET FileKinds :
         /\ diskFiles' = files
         /\ needDBC' = [needDBC EXCEPT ![t] = checkIfDBCNeeded(files)]
         /\ SetPc(t, IF checkIfDBCNeeded(files) THEN "n_enable" ELSE "n_settings")
    /\ UNCHANGED << kernel, monitor, counters, req, prevMode, changed, mounted,
                    mu, dbcEnabled, dbcLink, status, trace, detachCh, harness, stageErr >>

\* Interface.Enable: nothing when already enabled; otherwise keycard.sh
\* runs (a failure is returned at once), then port 22 of the DBC is probed
\* every second: reached, enabled is set; not reached within 60 s, the
\* timeout is returned with enabled still false and the link left up.
\* server: what the call does to the HTTP file server.
\* A faulty Enable without the test of enabled at its head.
EnableAgain(enabled, link, scriptOk, reachable) ==
    IF ~scriptOk
    THEN [enabled |-> enabled, link |-> link, err |-> TRUE,
          ops |-> << "keycard.sh:fail" >>, server |-> "keep"]
    ELSE [enabled |-> reachable, link |-> TRUE, err |-> ~reachable,
          ops |-> << "keycard.sh:ok" >>, server |-> IF reachable THEN "start" ELSE "keep"]

Enable(enabled, link, scriptOk, reachable) ==
    IF enabled
    THEN [enabled |-> TRUE, link |-> link, err |-> FALSE, ops |-> << >>, server |-> "keep"]
    ELSE IF ~scriptOk
    THEN [enabled |-> FALSE, link |-> link, err |-> TRUE,
          ops |-> << "keycard.sh:fail" >>, server |-> "keep"]
    ELSE [enabled |-> reachable, link |-> TRUE, err |-> ~reachable,
          ops |-> << "keycard.sh:ok" >>, server |-> IF reachable THEN "start" ELSE "keep"]

\* Interface.Disable: nothing when not enabled; otherwise the HTTP server
\* is shut down and keycard.sh runs again; when it fails the error is
\* returned and enabled stays true.
Disable(enabled, link, scriptOk) ==
    IF ~enabled
    THEN [enabled |-> FALSE, link |-> link, err |-> FALSE, ops |-> << >>, server |-> "keep"]
    ELSE IF ~scriptOk
    THEN [enabled |-> TRUE, link |-> link, err |-> TRUE,
          ops |-> << "keycard.sh:fail" >>, server |-> "stop"]
    ELSE [enabled |-> FALSE, link |-> FALSE, err |-> FALSE,
          ops |-> << "keycard.sh:ok" >>, server |-> "stop"]

\* Interface.CopyFile: an error when not enabled, else scp
CopyFile(enabled, ok) ==
    IF ~enabled THEN [err |-> "not enabled", ops |-> << >>]
    ELSE [err |-> IF ok THEN "" ELSE "failed", ops |-> << "scp" >>]

\* Interface.RunCommand: an error when not enabled, else ssh
RunCommand(enabled, ok) ==
    IF ~enabled THEN [err |-> "not enabled", ops |-> << >>]
    ELSE [err |-> IF ok THEN "" ELSE "failed", ops |-> << "ssh" >>]

\* if needDBC: s.dbcInterface.Enable(ctx); the error is logged, never
\* returned
N_Enable(t) ==
    /\ pc[t] = "n_enable"
    /\ \E scriptOk \in BOOLEAN, reachable \in BOOLEAN :
         LET r == Enable(dbcEnabled, dbcLink, scriptOk, reachable)
         IN  /\ dbcEnabled' = r.enabled
             /\ dbcLink' = r.link
             /\ Emit(<< "dbc.Enable" >> \o r.ops)
    /\ SetPc(t, "n_settings")
    /\ UNCHANGED << kernel, monitor, counters, locals, mounted, mu, diskFiles,
                    status, detachCh, harness, stageErr >>

\* settingsChanged: s.settingsLdr.CopyFromUSB(mountPoint); an error counts
\* as not changed
N_SettingsIn(t) ==
    /\ pc[t] = "n_settings"
    /\ \E r \in {"changed", "same", "err"} :
         /\ changed' = [changed EXCEPT ![t].settings = (r = "changed")]
         /\ stageErr' = (r = "err")
    /\ Emit(<< "settings.CopyFromUSB" >>)
    /\ SetPc(t, "n_wg")
    /\ UNCHANGED << kernel, monitor, counters, req, prevMode, needDBC, mounted,
                    mu, diskFiles, dbcEnabled, dbcLink, status, detachCh, harness >>

\* wgChanged: s.wgManager.SyncFromUSB(mountPoint); an error counts as not
\* changed
N_WgIn(t) ==
    /\ pc[t] = "n_wg"
    /\ \E r \in {"changed", "same", "err"} :
         /\ changed' = [changed EXCEPT ![t].wg = (r = "changed")]
         /\ stageErr' = (r = "err")
    /\ Emit(<< "wireguard.SyncFromUSB" >>)
    /\ SetPc(t, "n_updates")
    /\ UNCHANGED << kernel, monitor, counters, req, prevMode, needDBC, mounted,
                    mu, diskFiles, dbcEnabled, dbcLink, status, detachCh, harness >>

\* File names a host may leave in system-update, in the order os.ReadDir
\* lists them (sorted by name).
DirNames == << "librescoot-dbc-1.0.mender", "librescoot-dbc-1.1.delta",
               "librescoot-mdb-1.2.3.mender", "librescoot-mdb-1.3.delta",
               "notes.txt" >>

\* ProcessUpdates' tests on a file name: prefix librescoot- and suffix
\* .mender or .delta, else the entry is skipped; then "contains
\* librescoot-mdb", else "contains librescoot-dbc".
KindOf(name) ==
    IF name \in {"librescoot-mdb-1.2.3.mender", "librescoot-mdb-1.3.delta"} THEN "mdb"
    ELSE IF name \in {"librescoot-dbc-1.0.mender", "librescoot-dbc-1.1.delta"} THEN "dbc"
    ELSE "skip"

\* the file in system-update that stands for each kind the scan found
FileOf == [dbc |-> "librescoot-dbc-1.0.mender", dbcDelta |-> "librescoot-dbc-1.1.delta"]

\* what can happen to one main-board update and to one DBC update
MdbOutcomes == {"ok", "copyFail", "syncFail", "pushFail"}
DbcOutcomes == {"ok", "sshFail", "scpFail", "pushFail"}

Op(op, file, ok) == [op |-> op, file |-> file, ok |-> ok]

\* copyFile(src, dst): io.Copy, then out.Sync
copyFile(name, o) ==
    IF o = "copyFail"
    THEN [ops |-> << Op("io.Copy", name, FALSE) >>, err |-> TRUE]
    ELSE [ops |-> << Op("io.Copy", name, TRUE), Op("out.Sync", name, o # "syncFail") >>,
          err |-> (o = "syncFail")]

\* A faulty processMDBUpdate that queues the update before copying it.
processMDBUpdatePushFirst(name, o) ==
    LET c == copyFile(name, o)
    IN  [ops |-> << Op("LPush scooter:update:mdb", name, o # "pushFail") >> \o c.ops,
         err |-> (c.err \/ o = "pushFail")]

\* Loader.processMDBUpdate: copy into /data/ota, then LPush
\* update-from-file:/data/ota/<name> on scooter:update:mdb
processMDBUpdate(name, o) ==
    LET c == copyFile(name, o)
    IN  IF c.err THEN c
        ELSE [ops |-> c.ops \o << Op("LPush scooter:update:mdb", name, o # "pushFail") >>,
              err |-> (o = "pushFail")]

\* Loader.processDBCUpdate: an error when the interface is not enabled;
\* else mkdir over ssh, scp, then LPush on scooter:update:dbc
processDBCUpdate(name, enabled, o) ==
    IF ~enabled THEN [ops |-> << >>, err |-> TRUE]
    ELSE IF o = "sshFail"
    THEN [ops |-> << Op("dbc.RunCommand", name, FALSE) >>, err |-> TRUE]
    ELSE IF o = "scpFail"
    THEN [ops |-> << Op("dbc.RunCommand", name, TRUE), Op("dbc.CopyFile", name, FALSE) >>,
          err |-> TRUE]
    ELSE [ops |-> << Op("dbc.RunCommand", name, TRUE), Op("dbc.CopyFile", name, TRUE),
                     Op("LPush scooter:update:dbc", name, o # "pushFail") >>,
          err |-> (o = "pushFail")]

RECURSIVE ProcessUpdatesFrom(_, _, _, _)
\* the loop of ProcessUpdates from entry k on: the first error ends it
ProcessUpdatesFrom(entries, k, enabled, out) ==
    IF k > Len(entries) THEN [ops |-> << >>, err |-> FALSE]
    ELSE LET name == entries[k]
             r == IF KindOf(name) = "mdb" THEN processMDBUpdate(name, out[name])
                  ELSE IF KindOf(name) = "dbc"
                  THEN processDBCUpdate(name, enabled, out[name])
                  ELSE [ops |-> << >>, err |-> FALSE]
         IN  IF r.err THEN r
             ELSE LET rest == ProcessUpdatesFrom(entries, k + 1, enabled, out)
                  IN  [ops |-> r.ops \o rest.ops, err |-> rest.err]

\* Loader.ProcessUpdates on the entries of system-update, in directory
\* order; out gives what happens to each file
ProcessUpdates(entries, enabled, out) == ProcessUpdatesFrom(entries, 1, enabled, out)

\* the entries of system-update for the kinds of file the scan found
DirOf(files) ==
    LET Present(name) == \E k \in files \cap DOMAIN FileOf : FileOf[k] = name
    IN  SelectSeq(DirNames, Present)

\* the calls of a list of operations, as they appear in the trace
Calls(ops) == [i \in 1..Len(ops) |-> ops[i].op]

\* Updater.ProcessMaps: an error when the interface is not enabled; else
\* each map file is mkdir over ssh + scp, the first error ending the call.
\* The result lists the DBCProxy calls made for the first map file.
ProcessMaps(files, enabled, ok) ==
    IF ~enabled THEN [calls |-> << >>, err |-> TRUE]
    ELSE IF "map" \notin files THEN [calls |-> << >>, err |-> FALSE]
    ELSE IF ok THEN [calls |-> << "dbc.RunCommand", "dbc.CopyFile" >>, err |-> FALSE]
    ELSE [calls |-> << "dbc.RunCommand" >>, err |-> TRUE]

\* s.updateLdr.ProcessUpdates(mountPoint); the error is logged
N_Updates(t) ==
    /\ pc[t] = "n_updates"
    /\ \E o \in {"ok", "sshFail"} :
         LET r == ProcessUpdates(DirOf(diskFiles), dbcEnabled,
                                 [n \in {FileOf[k] : k \in DOMAIN FileOf} |-> o])
         IN  /\ Emit(<< "update.ProcessUpdates" >> \o Calls(r.ops))
             /\ stageErr' = r.err
    /\ SetPc(t, "n_maps")
    /\ UNCHANGED << kernel, monitor, counters, locals, mounted, mu, diskFiles,
                    dbcEnabled, dbcLink, status, detachCh, harness >>

\* s.mapsUpdater.ProcessMaps(mountPoint); the error is logged.  It is the
\* last reader of the disk's files.
N_Maps(t) ==
    /\ pc[t] = "n_maps"
    /\ \E ok \in BOOLEAN :
         LET r == ProcessMaps(diskFiles, dbcEnabled, ok)
         IN  /\ Emit(<< "maps.ProcessMaps" >> \o r.calls)
             /\ stageErr' = r.err
    /\ SetPc(t, "n_restart")
    /\ diskFiles' = {}
    /\ UNCHANGED << kernel, monitor, counters, locals, mounted, mu,
                    dbcEnabled, dbcLink, status, detachCh, harness >>

\* A faulty restart step that restarts settings-service whatever the
\* stage-ins reported.
N_RestartAlways(t) ==
    /\ pc[t] = "n_restart"
    /\ Emit(<< "systemctl restart settings-service" >>)
    /\ changed' = [changed EXCEPT ![t] = NoChange]
    /\ stageErr' = FALSE
    /\ SetPc(t, "n_clean")
    /\ UNCHANGED << kernel, monitor, counters, req, prevMode, needDBC, mounted,
                    mu, diskFiles, dbcEnabled, dbcLink, status, detachCh, harness >>

\* if settingsChanged || wgChanged: systemctl restart settings-service;
\* the two flags are not read again
N_Restart(t) ==
    /\ pc[t] = "n_restart"
    /\ Emit(IF changed[t].settings \/ changed[t].wg
            THEN << "systemctl restart settings-service" >> ELSE << >>)
    /\ changed' = [changed EXCEPT ![t] = NoChange]
    /\ stageErr' = FALSE
    /\ SetPc(t, "n_clean")
    /\ UNCHANGED << kernel, monitor, counters, req, prevMode, needDBC, mounted,
                    mu, diskFiles, dbcEnabled, dbcLink, status, detachCh, harness >>

\* A faulty clean step that announces idle as soon as the drive is wiped,
\* before the unmount and the DBC teardown.
N_CleanThenIdle(t) ==
    /\ pc[t] = "n_clean"
    /\ setStatus("idle")
    /\ Emit(<< "CleanDrive", "status:idle" >>)
    /\ \E ok \in BOOLEAN :
         /\ hostFiles' = (IF ok THEN "none" ELSE hostFiles)
         /\ stageErr' = ~ok
    /\ SetPc(t, "n_unmount")
    /\ UNCHANGED << kernel, monitor, counters, locals, mounted, mu, diskFiles,
                    dbcEnabled, dbcLink, detachCh, direct >>

\* A faulty clean that reports success and leaves the files on the disk.
N_CleanNothing(t) ==
    /\ pc[t] = "n_clean"
    /\ Emit(<< "CleanDrive" >>)
    /\ \E ok \in BOOLEAN : stageErr' = ~ok
    /\ SetPc(t, "n_unmount")
    /\ UNCHANGED << kernel, monitor, counters, locals, mounted, mu, diskFiles,
                    dbcEnabled, dbcLink, status, detachCh, harness >>

\* s.diskMgr.CleanDrive(): every entry of the mounted image is removed;
\* the error is logged
N_Clean(t) ==
    /\ pc[t] = "n_clean"
    /\ Emit(<< "CleanDrive" >>)
    /\ \E ok \in BOOLEAN :
         /\ hostFiles' = (IF ok THEN "none" ELSE hostFiles)
         /\ stageErr' = ~ok
    /\ SetPc(t, "n_unmount")
    /\ UNCHANGED << kernel, monitor, counters, locals, mounted, mu, diskFiles,
                    dbcEnabled, dbcLink, status, detachCh, direct >>

\* A faulty step that leaves switchToNormal's image mounted: Unmount is
\* not called.
N_UnmountSkipped(t) ==
    /\ pc[t] = "n_unmount"
    /\ stageErr' = FALSE
    /\ SetPc(t, "n_disable")
    /\ UNCHANGED << kernel, monitor, counters, locals, mounted, mu, diskFiles,
                    dbcEnabled, dbcLink, status, trace, detachCh, harness >>

\* s.diskMgr.Unmount(); the error is logged
N_Unmount(t) ==
    /\ pc[t] = "n_unmount"
    /\ \E ok \in BOOLEAN :
         /\ mounted' = (IF ok THEN FALSE ELSE mounted)
         /\ Emit(<< IF ok THEN "unmount:ok" ELSE "unmount:fail" >>)
    /\ stageErr' = FALSE
    /\ SetPc(t, "n_disable")
    /\ UNCHANGED << kernel, monitor, counters, locals, mu, diskFiles,
                    dbcEnabled, dbcLink, status, detachCh, harness >>

\* if needDBC: s.dbcInterface.Disable(); the error is logged
N_Disable(t) ==
    /\ pc[t] = "n_disable"
    /\ IF needDBC[t]
       THEN \E scriptOk \in BOOLEAN :
              LET r == Disable(dbcEnabled, dbcLink, scriptOk)
              IN  /\ dbcEnabled' = r.enabled
                  /\ dbcLink' = r.link
                  /\ Emit(<< "dbc.Disable" >> \o r.ops)
       ELSE UNCHANGED << dbcEnabled, dbcLink, trace >>
    /\ SetPc(t, "n_commit")
    /\ UNCHANGED << kernel, monitor, counters, locals, mounted, mu, diskFiles,
                    status, detachCh, harness, stageErr >>

\* s.umsModeType = ""; s.setStatus("idle")
N_Commit(t) ==
    /\ pc[t] = "n_commit"
    /\ umsModeType' = ""
    /\ setStatus("idle")
    /\ Emit(<< "status:idle", "return:nil" >>)
    /\ SetPc(t, NRet(t))
    /\ UNCHANGED << kernel, monitor, detachCount, locals, mounted, mu, diskFiles,
                    dbcEnabled, dbcLink, detachCh, harness, stageErr >>

switchToNormal(t) ==
    \/ N_Switch(t) \/ N_Processing(t) \/ N_Mount(t) \/ N_Scan(t) \/ N_Enable(t)
    \/ N_SettingsIn(t) \/ N_WgIn(t) \/ N_Updates(t) \/ N_Maps(t) \/ N_Restart(t)
    \/ N_Clean(t) \/ N_Unmount(t) \/ N_Disable(t) \/ N_Commit(t)

\* ------------------------------------- onDeviceDetached, doSwitchToNormal

\* onDeviceDetached's switch on umsModeType, after detachCount was
\* incremented to count: "d_switch" calls doSwitchToNormal, "ret" returns.
DetachDispatch(type, count) ==
    IF type = "ums" THEN (IF count >= 1 THEN "d_switch" ELSE "ret")
    ELSE IF type = "ums-by-dbc"
    THEN (IF count = 1 THEN "ret" ELSE IF count >= 2 THEN "d_switch" ELSE "ret")
    ELSE "d_switch"

\* A faulty handler that counts the event whatever the gadget mode.
onDeviceDetachedAnyMode ==
    /\ pc["detach"] = "locked"
    /\ detachCount' = detachCount + 1
    /\ sessionDetaches' = IF sessionDetaches < MaxSessionDetaches
                          THEN sessionDetaches + 1 ELSE sessionDetaches
    /\ SetPc("detach", DetachDispatch(umsModeType, detachCount + 1))
    /\ seen' = [seen EXCEPT !.oldHeld = FALSE]
    /\ UNCHANGED << currentMode, etherLoaded, msLoaded, monitor, umsModeType,
                    locals, mounted, mu, diskFiles, dbcEnabled, dbcLink, status, trace,
                    detachCh, harness, stageErr >>

onDeviceDetached ==
    /\ pc["detach"] = "locked"
    /\ IF currentMode # "ums"
       THEN /\ SetPc("detach", "ret")
            /\ UNCHANGED << detachCount, sessionDetaches >>
       ELSE /\ detachCount' = detachCount + 1
            /\ sessionDetaches' = IF sessionDetaches < MaxSessionDetaches
                                  THEN sessionDetaches + 1 ELSE sessionDetaches
            /\ SetPc("detach", DetachDispatch(umsModeType, detachCount + 1))
    /\ seen' = [seen EXCEPT !.oldHeld = FALSE]
    /\ UNCHANGED << currentMode, etherLoaded, msLoaded, monitor, umsModeType,
                    locals, mounted, mu, diskFiles, dbcEnabled, dbcLink, status, trace,
                    detachCh, harness, stageErr >>

\* doSwitchToNormal: prevMode := s.usbCtrl.GetCurrentMode(), then
\* switchToNormal(prevMode)
D_Start ==
    /\ pc["detach"] = "d_switch"
    /\ prevMode' = [prevMode EXCEPT !["detach"] = currentMode]
    /\ trace' = << "switchToNormal" >>
    /\ SetPc("detach", "n_switch")
    /\ UNCHANGED << kernel, monitor, counters, req, needDBC, changed, mounted,
                    mu, diskFiles, dbcEnabled, dbcLink, status, detachCh, harness, stageErr >>

\* s.detachCount = 0, whatever switchToNormal returned
D_Reset ==
    /\ pc["detach"] = "d_reset"
    /\ detachCount' = 0
    /\ SetPc("detach", "d_publish")
    /\ UNCHANGED << kernel, monitor, umsModeType, locals, mounted, mu,
                    diskFiles, dbcEnabled, dbcLink, status, trace, detachCh, harness, stageErr >>

\* s.publisher.Set("mode", "normal", ipc.Sync())
D_Publish ==
    /\ pc["detach"] = "d_publish"
    /\ Emit(<< "publish mode=normal" >>)
    /\ SetPc("detach", "ret")
    /\ UNCHANGED << kernel, monitor, counters, locals, mounted, mu, diskFiles,
                    dbcEnabled, dbcLink, status, detachCh, harness, stageErr >>

doSwitchToNormal == D_Start \/ D_Reset \/ D_Publish

\* ------------------------------------------------- Controller.monitorLoop

\* a tick: outside ums the loop forgets wasConfigured and waits again
MonTick ==
    /\ monPc = "wait"
    /\ IF currentMode # "ums"
       THEN /\ wasConfigured' = FALSE
            /\ seen' = [seen EXCEPT !.cfgHere = FALSE]
            /\ UNCHANGED monPc
       ELSE /\ monPc' = "sample"
            /\ UNCHANGED << wasConfigured, seen >>
    /\ UNCHANGED << currentMode, etherLoaded, msLoaded, sessionDetaches, counters, locals, mounted, mu, pc, diskFiles,
                    dbcEnabled, dbcLink, status, trace, detachCh, udcConfigured, harness, stageErr >>

\* A faulty sample whose send waits for room in the channel.
MonSampleBlocking ==
    /\ monPc = "sample"
    /\ monPc' = "wait"
    /\ IF udcConfigured
       THEN /\ wasConfigured' = TRUE
            /\ seen' = [seen EXCEPT !.cfgHere = (currentMode = "ums")]
            /\ UNCHANGED detachCh
       ELSE IF wasConfigured
       THEN /\ detachCh < DetachChCap
            /\ wasConfigured' = FALSE
            /\ seen' = [seen EXCEPT !.cfgHere = FALSE]
            /\ detachCh' = detachCh + 1
       ELSE UNCHANGED << wasConfigured, detachCh, seen >>
    /\ UNCHANGED << currentMode, etherLoaded, msLoaded, sessionDetaches, counters, locals, mounted, mu, pc, diskFiles,
                    dbcEnabled, dbcLink, status, trace, udcConfigured, harness, stageErr >>

\* A faulty sample that signals a detach on every reading that is not
\* configured, whether or not the host had been seen.
MonSampleAnyUnconfigured ==
    /\ monPc = "sample"
    /\ monPc' = "wait"
    /\ IF udcConfigured
       THEN /\ wasConfigured' = TRUE
            /\ seen' = [seen EXCEPT !.cfgHere = (currentMode = "ums")]
            /\ UNCHANGED detachCh
       ELSE /\ wasConfigured' = FALSE
            /\ seen' = [seen EXCEPT !.cfgHere = FALSE]
            /\ detachCh' = IF detachCh < DetachChCap THEN detachCh + 1 ELSE detachCh
    /\ UNCHANGED << currentMode, etherLoaded, msLoaded, sessionDetaches, counters, locals, mounted, mu, pc, diskFiles,
                    dbcEnabled, dbcLink, status, trace, udcConfigured, harness, stageErr >>

\* in ums: sample the UDC state; configured -> not configured is a detach,
\* sent without blocking (dropped when the channel is full)
MonSample ==
    /\ monPc = "sample"
    /\ monPc' = "wait"
    /\ IF udcConfigured
       THEN /\ wasConfigured' = TRUE
            /\ seen' = [seen EXCEPT !.cfgHere = (currentMode = "ums")]
            /\ UNCHANGED detachCh
       ELSE IF wasConfigured
       THEN /\ wasConfigured' = FALSE
            /\ seen' = [seen EXCEPT !.cfgHere = FALSE]
            /\ detachCh' = IF detachCh < DetachChCap THEN detachCh + 1 ELSE detachCh
       ELSE UNCHANGED << wasConfigured, detachCh, seen >>
    /\ UNCHANGED << currentMode, etherLoaded, msLoaded, sessionDetaches, counters, locals, mounted, mu, pc, diskFiles,
                    dbcEnabled, dbcLink, status, trace, udcConfigured, harness, stageErr >>

monitorLoop == MonTick \/ MonSample

\* the USB host enumerates the gadget or goes away
HostToggle ==
    /\ udcConfigured' = ~udcConfigured
    /\ UNCHANGED << kernel, counters, locals, mounted, mu, pc, diskFiles,
                    dbcEnabled, dbcLink, status, trace, detachCh, monPc, wasConfigured, harness, stageErr >>

\* --------------------------------------------------------- specifications

Next ==
    \/ \E m \in Requests : BusDeliver(m)
    \/ detachLoop
    \/ \E t \in Threads : Lock(t)
    \/ \E t \in Threads : Unlock(t)
    \/ handleModeChange
    \/ switchToUMS
    \/ \E t \in Threads : switchToNormal(t)
    \/ onDeviceDetached
    \/ doSwitchToNormal
    \/ monitorLoop
    \/ HostToggle

Spec == Init /\ [][Next]_vars

\* Controller.SwitchMode exercised on its own, with every target and every
\* outcome of rmmod and modprobe
CtlCall(target, unloadOk, loadOk) ==
    LET r == SwitchMode(currentMode, etherLoaded, msLoaded, target, unloadOk, loadOk)
    IN  /\ currentMode' = r.mode
        /\ etherLoaded' = r.ether
        /\ msLoaded' = r.ms
        /\ ctl' = [called |-> TRUE, target |-> target, before |-> currentMode,
                   etherBefore |-> etherLoaded, msBefore |-> msLoaded,
                   err |-> r.err, ops |-> r.ops, loadOk |-> loadOk,
                   unloadOk |-> unloadOk]
        /\ UNCHANGED << mounted, umsModeType, detachCount, mu, pc, req, prevMode,
                        needDBC, diskFiles, dbcEnabled, dbcLink, status, trace,
                        detachCh,
                        monPc, wasConfigured, udcConfigured, changed,
                        sessionDetaches, seen, stageErr, upd, run, sett, wg, dbc, lk, stage, cv, hostFiles >>

CtlNext == \E target \in Targets, unloadOk \in BOOLEAN, loadOk \in BOOLEAN :
               CtlCall(target, unloadOk, loadOk)

SpecCtl == Init /\ [][CtlNext]_vars

\* the directories a host can leave: every selection of DirNames, in order
Dirs == { SelectSeq(DirNames, LAMBDA n : n \in S) :
            S \in SUBSET { DirNames[i] : i \in 1..Len(DirNames) } }

\* what can happen to each file of a directory
OutcomesOf(name) ==
    IF KindOf(name) = "mdb" THEN MdbOutcomes
    ELSE IF KindOf(name) = "dbc" THEN DbcOutcomes
    ELSE {"ok"}

\* Loader.ProcessUpdates exercised on its own, with every directory, the
\* interface enabled or not, and every outcome for every file
UpdCall(entries, enabled, out) ==
    LET r == ProcessUpdates(entries, enabled, out)
    IN  /\ ~upd.called
        /\ upd' = [called |-> TRUE, entries |-> entries, enabled |-> enabled,
                   out |-> out, ops |-> r.ops, err |-> r.err]
        /\ UNCHANGED << kernel, monitor, counters, locals, mounted, mu, pc, diskFiles,
                        dbcEnabled, dbcLink, status, trace, detachCh, ctl, hostFiles, lk, stage, cv, stageErr, run, sett, wg, dbc >>

UpdNext ==
    \E entries \in Dirs, enabled \in BOOLEAN :
        \E out \in { f \in [{ entries[i] : i \in 1..Len(entries) } ->
                              MdbOutcomes \cup DbcOutcomes] :
                        \A n \in DOMAIN f : f[n] \in OutcomesOf(n) } :
            UpdCall(entries, enabled, out)

SpecUpd == Init /\ [][UpdNext]_vars

\* ------------------------------------------------- settings stage-in

\* byte contents of a settings.toml
Contents == {"v1", "v2", "v3"}

\* what the file operations of one CopyFromUSB run do: the read of the
\* disk file, the read of /data/settings.toml, and the write, which on
\* failure may have truncated the file
SettOutcomes == [read : BOOLEAN, localRead : BOOLEAN, write : {"ok", "fail", "truncated"}]

\* A faulty CopyFromUSB that writes without comparing the contents.
CopyFromUSBNoCompare(disk, local, o) ==
    IF disk = Absent THEN [changed |-> FALSE, err |-> FALSE, fail |-> FALSE, local |-> local]
    ELSE IF ~o.read THEN [changed |-> FALSE, err |-> TRUE, fail |-> TRUE, local |-> local]
    ELSE IF o.write # "ok"
    THEN [changed |-> FALSE, err |-> TRUE, fail |-> TRUE,
          local |-> IF o.write = "truncated" THEN "" ELSE local]
    ELSE [changed |-> TRUE, err |-> FALSE, fail |-> FALSE, local |-> disk]

\* settings.Loader.CopyFromUSB: no disk file, nothing to do; a local file
\* that cannot be read counts as different; the write happens only when
\* the contents differ.  fail: a file operation of the run failed.
CopyFromUSB(disk, local, o) ==
    IF disk = Absent THEN [changed |-> FALSE, err |-> FALSE, fail |-> FALSE, local |-> local]
    ELSE IF ~o.read THEN [changed |-> FALSE, err |-> TRUE, fail |-> TRUE, local |-> local]
    ELSE LET existingRead == local # Absent /\ o.localRead
             changedNow == IF existingRead THEN local # disk ELSE TRUE
             readFail == local # Absent /\ ~o.localRead
         IN  IF ~changedNow
             THEN [changed |-> FALSE, err |-> FALSE, fail |-> FALSE, local |-> local]
             ELSE IF o.write # "ok"
             THEN [changed |-> FALSE, err |-> TRUE, fail |-> TRUE,
                   local |-> IF o.write = "truncated" THEN "" ELSE local]
             ELSE [changed |-> TRUE, err |-> FALSE, fail |-> readFail, local |-> disk]

\* the host leaves a settings.toml on the disk (or none) and /data holds
\* one (or none)
SettStart(disk, local) ==
    /\ ~sett.started
    /\ sett' = [started |-> TRUE, disk |-> disk, local |-> local, runs |-> << >>]
    /\ UNCHANGED << kernel, monitor, counters, locals, mounted, mu, pc, diskFiles,
                    dbcEnabled, dbcLink, status, trace, detachCh, ctl, hostFiles, lk, stage, cv, upd, run, wg, dbc, stageErr >>

\* one run of CopyFromUSB on the disk as it is
SettRun(o) ==
    /\ sett.started /\ Len(sett.runs) < MaxStageIns
    /\ LET r == CopyFromUSB(sett.disk, sett.local, o)
       IN  sett' = [sett EXCEPT !.local = r.local,
                                !.runs = Append(@, [changed |-> r.changed, err |-> r.err,
                                                    fail |-> r.fail, before |-> sett.local,
                                                    after |-> r.local])]
    /\ UNCHANGED << kernel, monitor, counters, locals, mounted, mu, pc, diskFiles,
                    dbcEnabled, dbcLink, status, trace, detachCh, ctl, hostFiles, lk, stage, cv, upd, run, wg, dbc, stageErr >>

SettNext ==
    \/ \E disk \in Contents \cup {Absent}, local \in Contents \cup {Absent} :
           SettStart(disk, local)
    \/ \E o \in SettOutcomes : SettRun(o)

SpecSett == Init /\ [][SettNext]_vars

\* ------------------------------------------------ WireGuard stage-in

\* names found in a wireguard directory
WgNames == {"wg0.conf", "wg1.conf", "notes.txt"}

\* strings.HasSuffix(name, ".conf")
IsConf(name) == name \in {"wg0.conf", "wg1.conf"}

\* byte contents of a file in a wireguard directory
WgContents(name) == IF IsConf(name) THEN {"v1", "v2"} ELSE {"v1"}

\* the directories: for each name its contents, or Absent
WgDirs == { d \in [WgNames -> {"v1", "v2", Absent}] :
              \A n \in WgNames : d[n] \in WgContents(n) \cup {Absent} }

EmptyDir == [n \in WgNames |-> Absent]

\* the wireguard directory of the disk: there or not, and its files
WgDisks == { [dir |-> TRUE, files |-> d] : d \in WgDirs } \cup
           { [dir |-> FALSE, files |-> EmptyDir] }

\* the *.conf files of a directory
ConfSet(files) == { n \in WgNames : IsConf(n) /\ files[n] # Absent }

\* what the file operations of one SyncFromUSB run do: MkdirAll, the two
\* ReadDir, and the files whose read, write or removal fails
WgOutcomes == [mkdir : BOOLEAN, list : BOOLEAN, usbList : BOOLEAN,
               readFail : SUBSET {"wg0.conf", "wg1.conf"},
               writeFail : SUBSET {"wg0.conf", "wg1.conf"},
               removeFail : SUBSET {"wg0.conf", "wg1.conf"}]

WgResult(chg, err, fail, local) ==
    [changed |-> chg, err |-> err, fail |-> fail, local |-> local]

\* A faulty SyncFromUSB that never removes a local file.
SyncFromUSBNoDelete(disk, local, o) ==
    IF ~disk.dir THEN WgResult(FALSE, FALSE, FALSE, local)
    ELSE IF ~o.mkdir \/ ~o.usbList THEN WgResult(FALSE, TRUE, TRUE, local)
    ELSE LET processed == ConfSet(disk.files)
             differs == { n \in processed \ o.readFail : local[n] # disk.files[n] }
             written == differs \ o.writeFail
         IN  WgResult(written # {}, FALSE,
                      ~o.list \/ processed \cap o.readFail # {} \/ differs \cap o.writeFail # {},
                      [n \in WgNames |-> IF n \in written THEN disk.files[n] ELSE local[n]])

\* A faulty SyncFromUSB that reports the writes but not the removals.
SyncFromUSBSilentDelete(disk, local, o) ==
    IF ~disk.dir THEN WgResult(FALSE, FALSE, FALSE, local)
    ELSE IF ~o.mkdir \/ ~o.usbList THEN WgResult(FALSE, TRUE, TRUE, local)
    ELSE LET existingFiles == IF o.list THEN ConfSet(local) ELSE {}
             processedFiles == ConfSet(disk.files)
             differs == { n \in processedFiles \ o.readFail : local[n] # disk.files[n] }
             written == differs \ o.writeFail
             stale == existingFiles \ processedFiles
             removed == stale \ o.removeFail
         IN  WgResult(written # {}, FALSE,
                      \/ ~o.list
                      \/ processedFiles \cap o.readFail # {}
                      \/ differs \cap o.writeFail # {}
                      \/ stale \cap o.removeFail # {},
                      [n \in WgNames |-> IF n \in written THEN disk.files[n]
                                         ELSE IF n \in removed THEN Absent
                                         ELSE local[n]])

\* wireguard.Manager.SyncFromUSB: nothing to do without the disk
\* directory; else write every *.conf of the disk whose bytes differ and
\* remove every local *.conf the disk does not have.  Failures on a file
\* are logged and the file is passed over.  The closing loop for an empty
\* disk directory tries the same removals again.  fail: a file operation
\* of the run failed.
SyncFromUSB(disk, local, o) ==
    IF ~disk.dir THEN WgResult(FALSE, FALSE, FALSE, local)
    ELSE IF ~o.mkdir \/ ~o.usbList THEN WgResult(FALSE, TRUE, TRUE, local)
    ELSE LET existingFiles == IF o.list THEN ConfSet(local) ELSE {}
             processedFiles == ConfSet(disk.files)
             differs == { n \in processedFiles \ o.readFail : local[n] # disk.files[n] }
             written == differs \ o.writeFail
             stale == existingFiles \ processedFiles
             removed == stale \ o.removeFail
         IN  WgResult(written # {} \/ removed # {}, FALSE,
                      \/ ~o.list
                      \/ processedFiles \cap o.readFail # {}
                      \/ differs \cap o.writeFail # {}
                      \/ stale \cap o.removeFail # {},
                      [n \in WgNames |-> IF n \in written THEN disk.files[n]
                                         ELSE IF n \in removed THEN Absent
                                         ELSE local[n]])

\* SyncFromUSB exercised on its own, with every disk the host can leave,
\* every content of /data/wireguard and every outcome of the file operations
WgCall(disk, local, o) ==
    LET r == SyncFromUSB(disk, local, o)
    IN  /\ ~wg.called
        /\ wg' = [called |-> TRUE, disk |-> disk, before |-> local, local |-> r.local,
                  changed |-> r.changed, err |-> r.err, fail |-> r.fail]
        /\ UNCHANGED << kernel, monitor, counters, locals, mounted, mu, pc, diskFiles,
                        dbcEnabled, dbcLink, status, trace, detachCh, ctl, hostFiles, lk, stage, cv, upd, run,
                        sett, dbc, stageErr >>

WgNext == \E disk \in WgDisks, local \in WgDirs, o \in WgOutcomes : WgCall(disk, local, o)

SpecWg == Init /\ [][WgNext]_vars

\* ---------------------------------------------------- DBC interface

\* number of calls made on the interface in one run
MaxDbcCalls == 4

\* the servers running after a call
ServersAfter(n, server) ==
    IF server = "start" THEN n + 1 ELSE IF server = "stop" THEN 0 ELSE n

DbcRecord(op, err, ops) ==
    [op |-> op, wasEnabled |-> dbcEnabled, err |-> err, ops |-> ops,
     serversBefore |-> dbc.servers]

\* the rest of the daemon, which a call on the interface leaves alone
dbcFrame == << kernel, monitor, counters, locals, mounted, mu, pc, diskFiles, status,
               trace, detachCh, ctl, hostFiles, lk, stage, cv, upd, run, sett, wg, stageErr >>

DbcEnable(scriptOk, reachable) ==
    /\ Len(dbc.hist) < MaxDbcCalls
    /\ LET r == Enable(dbcEnabled, dbcLink, scriptOk, reachable)
       IN  /\ dbcEnabled' = r.enabled
           /\ dbcLink' = r.link
           /\ dbc' = [servers |-> ServersAfter(dbc.servers, r.server),
                      hist |-> Append(dbc.hist,
                                      DbcRecord("Enable", IF r.err THEN "failed" ELSE "", r.ops))]
    /\ UNCHANGED dbcFrame

DbcDisable(scriptOk) ==
    /\ Len(dbc.hist) < MaxDbcCalls
    /\ LET r == Disable(dbcEnabled, dbcLink, scriptOk)
       IN  /\ dbcEnabled' = r.enabled
           /\ dbcLink' = r.link
           /\ dbc' = [servers |-> ServersAfter(dbc.servers, r.server),
                      hist |-> Append(dbc.hist,
                                      DbcRecord("Disable", IF r.err THEN "failed" ELSE "", r.ops))]
    /\ UNCHANGED dbcFrame

DbcCopyFile(ok) ==
    /\ Len(dbc.hist) < MaxDbcCalls
    /\ LET r == CopyFile(dbcEnabled, ok)
       IN  dbc' = [dbc EXCEPT !.hist = Append(@, DbcRecord("CopyFile", r.err, r.ops))]
    /\ UNCHANGED << dbcFrame, dbcEnabled, dbcLink >>

DbcRunCommand(ok) ==
    /\ Len(dbc.hist) < MaxDbcCalls
    /\ LET r == RunCommand(dbcEnabled, ok)
       IN  dbc' = [dbc EXCEPT !.hist = Append(@, DbcRecord("RunCommand", r.err, r.ops))]
    /\ UNCHANGED << dbcFrame, dbcEnabled, dbcLink >>

DbcNext ==
    \/ \E scriptOk \in BOOLEAN, reachable \in BOOLEAN : DbcEnable(scriptOk, reachable)
    \/ \E scriptOk \in BOOLEAN : DbcDisable(scriptOk)
    \/ \E ok \in BOOLEAN : DbcCopyFile(ok)
    \/ \E ok \in BOOLEAN : DbcRunCommand(ok)

SpecDbc == Init /\ [][DbcNext]_vars

\* ------------------------------------------------------ the disk image

\* while the gadget is in ums the host writes files to the image
HostWrite ==
    /\ currentMode = "ums" /\ hostFiles = "none"
    /\ hostFiles' = "current"
    /\ UNCHANGED << kernel, monitor, counters, locals, mounted, mu, pc, diskFiles,
                    dbcEnabled, dbcLink, status, trace, detachCh, direct, stageErr >>

\* The daemon driven by requests on the bus, with a host that writes to
\* the image during UMS sessions.
DiskNext ==
    \/ \E m \in Requests : BusDeliver(m)
    \/ Lock("bus")
    \/ Unlock("bus")
    \/ handleModeChange
    \/ switchToUMS
    \/ switchToNormal("bus")
    \/ HostWrite

SpecDisk == Init /\ [][DiskNext]_vars

\* ---------------------------------------------------- locks and loops

\* the rest of the daemon, which the lock steps leave alone
lkFrame == << kernel, monitor, counters, locals, mounted, mu, pc, diskFiles, dbcEnabled,
              dbcLink, status, trace, detachCh, ctl, upd, run, sett, wg, dbc, hostFiles,
              stage, cv, stageErr >>

\* where a goroutine is once it has released Service.mu
Rest(g) == IF g = "bus" THEN "idle" ELSE IF g = "detach" THEN "recv" ELSE "eval"

\* the watcher calls handleModeChange
LkRequest ==
    /\ lk.pc["bus"] = "idle"
    /\ lk' = [lk EXCEPT !.pc["bus"] = "s_wait"]
    /\ UNCHANGED lkFrame

\* detachLoop receives from DetachCh() and calls onDeviceDetached
LkRecv ==
    /\ lk.pc["detach"] = "recv" /\ lk.ch > 0
    /\ lk' = [lk EXCEPT !.pc["detach"] = "s_wait", !.ch = @ - 1]
    /\ UNCHANGED lkFrame

\* s.mu.Lock()
LkAcquireS(g) ==
    /\ lk.pc[g] = "s_wait" /\ lk.smu = "free"
    /\ lk' = [lk EXCEPT !.pc[g] = "s_held", !.smu = g]
    /\ UNCHANGED lkFrame

\* under Service.mu: a call of GetCurrentMode or SwitchMode
LkCall(g) ==
    /\ lk.pc[g] = "s_held"
    /\ lk' = [lk EXCEPT !.pc[g] = "c_wait"]
    /\ UNCHANGED lkFrame

\* c.mu.Lock() in GetCurrentMode, SwitchMode, StartMonitoring, StopMonitoring
LkAcquireC(g) ==
    /\ lk.pc[g] \in {"c_wait", "c_wait_start", "c_wait_stop"} /\ lk.cmu = "free"
    /\ lk' = [lk EXCEPT !.pc[g] = IF lk.pc[g] = "c_wait" THEN "c_held"
                                  ELSE IF lk.pc[g] = "c_wait_start" THEN "c_held_start"
                                  ELSE "c_held_stop",
                        !.cmu = g]
    /\ UNCHANGED lkFrame

\* the deferred c.mu.Unlock() of GetCurrentMode or SwitchMode
LkReleaseC(g) ==
    /\ lk.pc[g] = "c_held" /\ lk.cmu = g
    /\ lk' = [lk EXCEPT !.pc[g] = IF g \in Loops THEN "sample" ELSE "s_held",
                        !.cmu = "free"]
    /\ UNCHANGED lkFrame

\* the deferred s.mu.Unlock()
LkReleaseS(g) ==
    /\ lk.pc[g] = "s_held" /\ lk.smu = g
    /\ lk' = [lk EXCEPT !.pc[g] = Rest(g), !.smu = "free"]
    /\ UNCHANGED lkFrame

\* a call of StartMonitoring
LkStart ==
    /\ lk.pc["api"] = "idle"
    /\ lk.monitorRunning \/ lk.starts < MaxStarts
    /\ lk' = [lk EXCEPT !.pc["api"] = "c_wait_start"]
    /\ UNCHANGED lkFrame

\* StartMonitoring under c.mu: nothing when the monitor is running, else
\* monitorRunning is set and stopMonitor is a new channel
LkStartHeld ==
    /\ lk.pc["api"] = "c_held_start"
    /\ lk' = IF lk.monitorRunning
             THEN [lk EXCEPT !.pc["api"] = "idle", !.cmu = "free"]
             ELSE [lk EXCEPT !.pc["api"] = "spawn", !.cmu = "free",
                             !.monitorRunning = TRUE, !.starts = @ + 1,
                             !.stopMonitor = lk.starts + 1]
    /\ UNCHANGED lkFrame

\* go c.monitorLoop(), after the unlock
LkSpawn ==
    /\ lk.pc["api"] = "spawn"
    /\ lk' = [lk EXCEPT !.pc["api"] = "idle", !.pc[LoopName[lk.starts]] = "eval"]
    /\ UNCHANGED lkFrame

\* a call of StopMonitoring
LkStop ==
    /\ lk.pc["api"] = "idle"
    /\ lk' = [lk EXCEPT !.pc["api"] = "c_wait_stop"]
    /\ UNCHANGED lkFrame

\* StopMonitoring under c.mu: nothing when no monitor is running, else
\* monitorRunning is cleared and the current stopMonitor is closed
LkStopHeld ==
    /\ lk.pc["api"] = "c_held_stop"
    /\ lk' = IF ~lk.monitorRunning
             THEN [lk EXCEPT !.pc["api"] = "idle", !.cmu = "free"]
             ELSE [lk EXCEPT !.pc["api"] = "idle", !.cmu = "free",
                             !.monitorRunning = FALSE,
                             !.closed = @ \cup {lk.stopMonitor}]
    /\ UNCHANGED lkFrame

\* monitorLoop enters its select: c.stopMonitor is read, without the
\* lock, each time round
LkEval(l) ==
    /\ lk.pc[l] = "eval"
    /\ lk' = [lk EXCEPT !.pc[l] = "select", !.sel[l] = lk.stopMonitor]
    /\ UNCHANGED lkFrame

\* case <-c.stopMonitor: the channel the select holds is closed
LkSelectStop(l) ==
    /\ lk.pc[l] = "select" /\ lk.sel[l] \in lk.closed
    /\ lk' = [lk EXCEPT !.pc[l] = "done"]
    /\ UNCHANGED lkFrame

\* A faulty tick that takes c.mu and, holding it, goes for s.mu.
LkTickUnderLock(l) ==
    /\ lk.pc[l] = "select" /\ lk.cmu = "free"
    /\ lk' = [lk EXCEPT !.pc[l] = "s_wait", !.cmu = l]
    /\ UNCHANGED lkFrame

\* case <-ticker.C: the tick starts with GetCurrentMode
LkTick(l) ==
    /\ lk.pc[l] = "select"
    /\ lk' = [lk EXCEPT !.pc[l] = "c_wait"]
    /\ UNCHANGED lkFrame

\* the rest of the tick: nothing, or the send that does not block
LkSample(l) ==
    /\ lk.pc[l] = "sample"
    /\ \E send \in BOOLEAN :
         lk' = [lk EXCEPT !.pc[l] = "eval",
                          !.ch = IF send /\ lk.ch < DetachChCap THEN lk.ch + 1 ELSE lk.ch]
    /\ UNCHANGED lkFrame

LockNext ==
    \/ LkRequest
    \/ LkRecv
    \/ \E g \in Goroutines : LkAcquireS(g)
    \/ \E g \in {"bus", "detach"} : LkCall(g)
    \/ \E g \in Goroutines : LkAcquireC(g)
    \/ \E g \in Goroutines : LkReleaseC(g)
    \/ \E g \in Goroutines : LkReleaseS(g)
    \/ LkStart
    \/ LkStartHeld
    \/ LkSpawn
    \/ LkStop
    \/ LkStopHeld
    \/ \E l \in Loops : LkEval(l)
    \/ \E l \in Loops : LkSelectStop(l)
    \/ \E l \in Loops : LkTick(l)
    \/ \E l \in Loops : LkSample(l)

SpecLock == Init /\ [][LockNext]_vars

\* ------------------------------------------------------------- shutdown

\* main's signal goroutine: cancel() on SIGINT or SIGTERM
Cancel ==
    /\ ~run.ctxDone
    /\ run' = [run EXCEPT !.ctxDone = TRUE]
    /\ UNCHANGED << kernel, monitor, counters, locals, mounted, mu, pc, diskFiles,
                    dbcEnabled, dbcLink, status, trace, detachCh, ctl, hostFiles, lk, stage, cv, upd, sett, wg, dbc, stageErr >>

\* Run's goroutine, past <-ctx.Done(): Controller.StopMonitoring closes
\* stopMonitor when the monitor is running
StopMonitoring ==
    /\ run.ctxDone /\ run.monitorRunning
    /\ run' = [run EXCEPT !.monitorRunning = FALSE]
    /\ UNCHANGED << kernel, monitor, counters, locals, mounted, mu, pc, diskFiles,
                    dbcEnabled, dbcLink, status, trace, detachCh, ctl, hostFiles, lk, stage, cv, upd, sett, wg, dbc, stageErr >>

\* monitorLoop's select takes the closed stopMonitor and returns
MonStop ==
    /\ monPc = "wait" /\ ~run.monitorRunning
    /\ monPc' = "stopped"
    /\ UNCHANGED << kernel, counters, locals, mounted, mu, pc, diskFiles, dbcEnabled,
                    dbcLink, status, trace, detachCh, wasConfigured, udcConfigured,
                    harness, stageErr >>

\* detachLoop's select takes ctx.Done() and returns
DetachStop ==
    /\ pc["detach"] = "idle" /\ run.ctxDone
    /\ SetPc("detach", "stopped")
    /\ UNCHANGED << kernel, monitor, counters, locals, mounted, mu, diskFiles,
                    dbcEnabled, dbcLink, status, trace, detachCh, harness, stageErr >>

\* Run returns nil right after <-ctx.Done(); main returns and the process
\* exits, which ends every goroutine where it stands
RunReturn ==
    /\ run.ctxDone /\ ~run.exited
    /\ run' = [run EXCEPT !.exited = TRUE]
    /\ pc' = [t \in Threads |-> "exited"]
    /\ monPc' = "exited"
    /\ UNCHANGED << kernel, counters, locals, mounted, mu, diskFiles, dbcEnabled,
                    dbcLink, status, trace, detachCh, wasConfigured, udcConfigured,
                    ctl, hostFiles, lk, stage, cv, upd, sett, wg, dbc, stageErr >>

\* The daemon from start to exit with requests on the bus and no USB host
\* activity: the bus callback, the monitor, and the shutdown.
StopNext ==
    \/ \E m \in Requests : BusDeliver(m)
    \/ Lock("bus")
    \/ Unlock("bus")
    \/ handleModeChange
    \/ switchToUMS
    \/ switchToNormal("bus")
    \/ monitorLoop
    \/ Cancel
    \/ StopMonitoring
    \/ MonStop
    \/ DetachStop
    \/ RunReturn

SpecStop == Init /\ [][StopNext]_vars

\* ------------------------------------------------------------- properties

Has(tr, e) == \E i \in 1..Len(tr) : tr[i] = e

\* some a occurs in tr before some b
Precedes(tr, a, b) == \E i \in 1..Len(tr), j \in 1..Len(tr) : i < j /\ tr[i] = a /\ tr[j] = b

\* the events the step taken appended to the trace
Appended == IF Len(trace') > Len(trace) /\ SubSeq(trace', 1, Len(trace)) = trace
            THEN { trace'[i] : i \in (Len(trace) + 1)..Len(trace') }
            ELSE {}

InCS(t) == pc[t] \notin {"idle", "lock"}

\* C1: the disk image is never mounted while the gadget mode is ums.
C1_UnmountedInUms == currentMode = "ums" => ~mounted

\* C2: a request ums or ums-by-dbc handled while the gadget mode is already
\* ums returns without entering switchToUMS: nothing is published, mounted,
\* staged or reset.
C2_UmsRequestInUmsIsNoop ==
    (prevMode["bus"] = "ums" /\ req \in {"ums", "ums-by-dbc"})
        => (pc["bus"] = "ret" /\ trace = << >>)

\* C3: whenever the service lock is free, umsModeType is non-empty exactly
\* when the gadget mode is ums.
C3_TypeIffUms == mu = "free" => ((umsModeType # "") <=> (currentMode = "ums"))

\* C4: detachCount is 0 when switchToUMS returns success and when a return
\* to normal that ran to its end returns, on the bus goroutine as on the
\* detach goroutine.
C4_CountZeroAfterTransition ==
    \A t \in Threads :
        (pc[t] = "ret" /\ (Has(trace, "SwitchMode(ums):ok")
                          \/ (Has(trace, "CleanDrive") /\ Has(trace, "unmount:ok"))))
            => detachCount = 0

\* C5: under umsModeType ums a processed detach calls doSwitchToNormal; under
\* ums-by-dbc the first detach processed since the gadget entered ums
\* returns with the gadget in ums and detachCount = 1, and the second calls
\* doSwitchToNormal.
C5_DetachDispatch ==
    [][ (pc["detach"] = "locked" /\ pc'["detach"] # "locked" /\ currentMode = "ums")
          => /\ (umsModeType = "ums") => (pc'["detach"] = "d_switch")
             /\ (umsModeType = "ums-by-dbc" /\ sessionDetaches' = 1)
                  => (pc'["detach"] = "ret" /\ detachCount' = 1 /\ currentMode' = "ums"
                      /\ trace' = << >>)
             /\ (umsModeType = "ums-by-dbc" /\ sessionDetaches' = 2)
                  => (pc'["detach"] = "d_switch") ]_vars

\* C6: the two service goroutines are never both past their Lock, a
\* goroutine past its Lock holds the mutex, and umsModeType and detachCount
\* change only in steps of the goroutine holding it.
C6_SingleTransition ==
    /\ [](~(InCS("bus") /\ InCS("detach")))
    /\ [](\A t \in Threads : InCS(t) => mu = t)
    /\ [][ (umsModeType' # umsModeType \/ detachCount' # detachCount)
             => (mu \in Threads /\ mu' = mu /\ pc'[mu] # pc[mu]) ]_vars

\* C6 witness: one goroutine waits for the mutex while the other is inside
\* a transition.
C6_Witness == pc["detach"] = "lock" /\ pc["bus"] = "u_switch" /\ mu = "bus"

\* the order switchToUMS must have gone through before SwitchMode("ums")
EnterOrder(tr) ==
    /\ Len(tr) > 0 /\ tr[1] = "switchToUMS"
    /\ Precedes(tr, "settings.CopyToUSB", "wireguard.CopyToUSB")
    /\ Precedes(tr, "wireguard.CopyToUSB", "unmount:ok")
    /\ ~Has(tr, "unmount:fail")

\* C7: SwitchMode("ums") is called, and the gadget mode goes from normal to
\* ums, only after settings stage-out, then WireGuard stage-out, then a
\* successful unmount in the same transition, and never after a failed
\* unmount.
C7_EnterOrder ==
    [][ ( \/ (currentMode = "normal" /\ currentMode' = "ums")
          \/ Appended \cap {"SwitchMode(ums):ok", "SwitchMode(ums):fail"} # {} )
          => EnterOrder(trace) ]_vars

\* C7 witness: the gadget has just been switched to ums by switchToUMS.
C7_Witness ==
    /\ pc["bus"] = "u_commit" /\ currentMode = "ums" /\ prevMode["bus"] = "normal"
    /\ Has(trace, "SwitchMode(ums):ok") /\ EnterOrder(trace)

LeaveOps == {"mount:ok", "mount:fail", "settings.CopyFromUSB", "wireguard.SyncFromUSB",
             "update.ProcessUpdates", "maps.ProcessMaps", "dbc.Enable",
             "dbc.RunCommand", "dbc.CopyFile", "dbc.Disable"}

\* C8: in switchToNormal the mount, every stage-in and every DBCProxy call
\* come after a successful SwitchMode("normal"), and none of them happens
\* once SwitchMode("normal") has failed.
C8_SwitchBeforeStageIn ==
    (Len(trace) > 0 /\ trace[1] = "switchToNormal")
        => /\ \A i \in 1..Len(trace) :
                trace[i] \in LeaveOps
                    => \E j \in 1..(i - 1) : trace[j] = "SwitchMode(normal):ok"
           /\ Has(trace, "SwitchMode(normal):fail")
                => \A i \in 1..Len(trace) : trace[i] \notin LeaveOps

\* C8 witness: a detach-triggered return that used the DBC reaches its end.
C8_Witness ==
    /\ pc["detach"] = "n_commit"
    /\ Has(trace, "dbc.Enable") /\ Has(trace, "dbc.CopyFile") /\ Has(trace, "dbc.Disable")
    /\ Has(trace, "settings.CopyFromUSB") /\ Has(trace, "mount:ok")

KnownModes == {"ums", "normal"}

\* C9: SwitchMode changes currentMode only to a known target different from
\* it whose module loaded; a target equal to currentMode runs no module
\* command; an unknown target and a failed load return an error; in these
\* three cases currentMode is unchanged; a failed unload alone does not
\* fail the switch.
C9_SwitchMode ==
    ctl.called =>
      /\ (currentMode # ctl.before)
           => (ctl.target \in KnownModes /\ ctl.target # ctl.before /\ ctl.loadOk
               /\ ~ctl.err /\ currentMode = ctl.target)
      /\ (ctl.target = ctl.before)
           => (ctl.ops = << >> /\ ~ctl.err /\ currentMode = ctl.before
               /\ etherLoaded = ctl.etherBefore /\ msLoaded = ctl.msBefore)
      /\ (ctl.target \notin KnownModes)
           => (ctl.err /\ ctl.ops = << >> /\ currentMode = ctl.before)
      /\ (ctl.target \in KnownModes /\ ctl.target # ctl.before /\ ~ctl.loadOk)
           => (ctl.err /\ currentMode = ctl.before)
      /\ (ctl.target \in KnownModes /\ ctl.target # ctl.before /\ ctl.loadOk)
           => (~ctl.err /\ currentMode = ctl.target)

\* C9 witness: a switch to ums succeeded although rmmod g_ether failed.
C9_Witness ==
    /\ ctl.called /\ ctl.target = "ums" /\ ctl.before = "normal"
    /\ ctl.etherBefore /\ ~ctl.unloadOk /\ ctl.loadOk
    /\ currentMode = "ums" /\ etherLoaded /\ msLoaded

\* C10: mode=normal is published only once the gadget mode is normal again,
\* and a return whose SwitchMode("normal") failed leaves detachCount as the
\* detach handler set it.
C10_PublishOnlyAfterReturn ==
    /\ Has(trace, "publish mode=normal") => currentMode = "normal"
    /\ (pc["detach"] \in {"d_publish", "ret"} /\ Has(trace, "SwitchMode(normal):fail"))
         => detachCount # 0

StatusEvents == {"status:idle", "status:preparing", "status:active", "status:processing"}

IsStatus(e) == e \in StatusEvents

\* the statuses published by the transition in flight, in order
Published(tr) == SelectSeq(tr, IsStatus)

\* C11: switchToUMS publishes preparing first, active only after a
\* successful unmount and before SwitchMode("ums") is called, and nothing
\* but idle after either; SwitchMode("ums") is called only after active; when
\* it fails, idle is published, an error is returned and the gadget mode is
\* still normal.
C11_EnterStatus ==
    (Len(trace) > 0 /\ trace[1] = "switchToUMS")
        => /\ Published(trace) \in { << >>, << "status:preparing" >>,
                                     << "status:preparing", "status:idle" >>,
                                     << "status:preparing", "status:active" >>,
                                     << "status:preparing", "status:active",
                                        "status:idle" >> }
           /\ \A i \in 1..Len(trace) :
                trace[i] = "status:active"
                    => /\ \E j \in 1..(i - 1) : trace[j] = "unmount:ok"
                       /\ \A j \in 1..(i - 1) :
                            trace[j] \notin {"SwitchMode(ums):ok", "SwitchMode(ums):fail",
                                             "unmount:fail", "mount:fail"}
           /\ \A i \in 1..Len(trace) :
                trace[i] \in {"SwitchMode(ums):ok", "SwitchMode(ums):fail"}
                    => \E j \in 1..(i - 1) : trace[j] = "status:active"
           /\ Has(trace, "SwitchMode(ums):fail")
                => /\ Precedes(trace, "SwitchMode(ums):fail", "status:idle")
                   /\ Has(trace, "return:error")
                   /\ status = "idle"
                   /\ currentMode = "normal"
                   /\ pc["bus"] = "ret"

\* C11 witness: SwitchMode("ums") failed after active was published, and
\* switchToUMS has returned.
C11_Witness ==
    /\ pc["bus"] = "ret" /\ Has(trace, "SwitchMode(ums):fail")
    /\ Published(trace) = << "status:preparing", "status:active", "status:idle" >>
    /\ currentMode = "normal" /\ ~etherLoaded

\* some a occurs in tr before position i
Before(tr, a, i) == \E j \in 1..(i - 1) : tr[j] = a

RECURSIVE InOrder(_, _, _, _, _)
\* events drawn from pat[k], pat[k+1], ... occur in that order among
\* tr[from], ..., tr[upto]
InOrder(tr, from, upto, pat, k) ==
    IF k > Len(pat) THEN TRUE
    ELSE IF from > upto THEN FALSE
    ELSE IF tr[from] \in pat[k] THEN InOrder(tr, from + 1, upto, pat, k + 1)
    ELSE InOrder(tr, from + 1, upto, pat, k)

Unmounts == {"unmount:ok", "unmount:fail"}

\* the stage-ins, the clean, the unmount and (when the DBC was asked for)
\* the DBC teardown have all run, in that order, before position i
StagesDone(tr, i) ==
    /\ InOrder(tr, 1, i - 1, << {"settings.CopyFromUSB"}, {"wireguard.SyncFromUSB"},
                                {"update.ProcessUpdates"}, {"maps.ProcessMaps"},
                                {"CleanDrive"}, Unmounts >>, 1)
    /\ Has(tr, "dbc.Enable")
         => InOrder(tr, 1, i - 1, << {"dbc.Enable"}, Unmounts, {"dbc.Disable"} >>, 1)

\* C12 as stated: in switchToNormal, processing is published only after a
\* successful SwitchMode("normal"), idle only after the stage-ins, the
\* clean, the unmount and the DBC teardown have run, and no status between
\* the two.
C12_IdleOnlyAfterStages ==
    (Len(trace) > 0 /\ trace[1] = "switchToNormal")
        => /\ \A i \in 1..Len(trace) :
                trace[i] = "status:processing" => Before(trace, "SwitchMode(normal):ok", i)
           /\ \A i \in 1..Len(trace) :
                trace[i] = "status:idle" => StagesDone(trace, i)
           /\ Published(trace) \in { << >>, << "status:processing" >>,
                                     << "status:processing", "status:idle" >> }

\* C12 amended: as C12, except that a failed mount publishes idle at once.
C12_LeaveStatus ==
    (Len(trace) > 0 /\ trace[1] = "switchToNormal")
        => /\ \A i \in 1..Len(trace) :
                trace[i] = "status:processing" => Before(trace, "SwitchMode(normal):ok", i)
           /\ \A i \in 1..Len(trace) :
                trace[i] = "status:idle"
                    => \/ (i > 1 /\ trace[i - 1] = "mount:fail")
                       \/ StagesDone(trace, i)
           /\ Published(trace) \in { << >>, << "status:processing" >>,
                                     << "status:processing", "status:idle" >> }

\* C12 witness: a return that used the DBC has published its closing idle.
C12_Witness ==
    /\ pc["bus"] = "ret" /\ status = "idle" /\ currentMode = "normal"
    /\ Published(trace) = << "status:processing", "status:idle" >>
    /\ Has(trace, "dbc.Disable") /\ Has(trace, "CleanDrive")

DiskFailures == {"mount:fail", "unmount:fail"}

Returned(tr) == Has(tr, "return:nil") \/ Has(tr, "return:error")

\* C13: when switchToUMS or switchToNormal has returned and a Mount or an
\* Unmount failed in it, the failure was followed at once by status idle and
\* the return of an error, and the published status is idle.
C13_DiskFailureAborts ==
    (Returned(trace) /\ \E i \in 1..Len(trace) : trace[i] \in DiskFailures)
        => /\ \A i \in 1..Len(trace) :
                trace[i] \in DiskFailures
                    => /\ i + 2 <= Len(trace)
                       /\ trace[i + 1] = "status:idle"
                       /\ trace[i + 2] = "return:error"
           /\ status = "idle"

\* the position after each file-stage call
AfterStage == [u_settings |-> "u_updprep", u_updprep |-> "u_mapsprep",
               u_mapsprep |-> "u_wgprep", u_wgprep |-> "u_wgout",
               u_wgout |-> "u_unmount", n_settings |-> "n_wg", n_wg |-> "n_updates",
               n_updates |-> "n_maps", n_maps |-> "n_restart"]

StageOuts == << {"settings.CopyToUSB"}, {"update.PrepareUSB"}, {"maps.PrepareUSB"},
                {"wireguard.PrepareUSB"}, {"wireguard.CopyToUSB"} >>

\* C14: a file-stage call that returns an error leads to the same next call
\* as one that succeeds, publishes nothing and returns nothing; a
\* switchToUMS past its stage-outs has made all five in order and goes on to
\* the unmount and, when it succeeds, to SwitchMode("ums"); a switchToNormal
\* whose mount succeeded returns nil after all stage-ins in order, the
\* clean and the unmount, with umsModeType cleared and status idle.
C14_StageErrorsDoNotAbort ==
    /\ [][ \A t \in Threads :
             (pc[t] \in DOMAIN AfterStage /\ pc'[t] # pc[t])
                 => /\ pc'[t] = AfterStage[pc[t]]
                    /\ status' = status
                    /\ ~Returned(trace') ]_vars
    /\ [](\A t \in Threads :
             (Len(trace) > 0 /\ trace[1] = "switchToUMS" /\ Has(trace, "mount:ok")
              /\ pc[t] \in {"u_unmount", "u_active", "u_switch", "u_commit", "ret"})
                 => /\ InOrder(trace, 1, Len(trace), StageOuts, 1)
                    /\ pc[t] # "u_unmount" => Has(trace, "unmount:ok") \/ Has(trace, "unmount:fail")
                    /\ (pc[t] \in {"u_commit", "ret"} /\ Has(trace, "unmount:ok"))
                         => Has(trace, "SwitchMode(ums):ok") \/ Has(trace, "SwitchMode(ums):fail"))
    /\ []((Len(trace) > 0 /\ trace[1] = "switchToNormal" /\ Has(trace, "mount:ok")
           /\ Returned(trace))
              => /\ StagesDone(trace, Len(trace))
                 /\ Has(trace, "return:nil")
                 /\ umsModeType = ""
                 /\ status = "idle")

\* C14 witness: ProcessMaps has just returned an error after the other
\* stage-ins, and switchToNormal is at the restart decision.
C14_Witness ==
    /\ pc["detach"] = "n_restart" /\ stageErr
    /\ InOrder(trace, 1, Len(trace), << {"settings.CopyFromUSB"}, {"wireguard.SyncFromUSB"},
                                        {"update.ProcessUpdates"}, {"maps.ProcessMaps"} >>, 1)

Restart == "systemctl restart settings-service"

\* the number of times e occurs in tr
Count(tr, e) == Cardinality({ i \in 1..Len(tr) : tr[i] = e })

\* C15: settings-service is restarted at most once in a return to normal,
\* and only by a step that finds settingsChanged or wgChanged set; a
\* Settings or WireGuard stage-in that returned an error leaves its flag
\* false.
C15_RestartOnce ==
    /\ [](Count(trace, Restart) <= 1)
    /\ [][ (Restart \in Appended)
             => ( /\ mu \in Threads
                  /\ pc[mu] = "n_restart"
                  /\ changed[mu].settings \/ changed[mu].wg
                  /\ ~Has(trace, Restart)
                  /\ Has(trace, "settings.CopyFromUSB")
                  /\ Has(trace, "wireguard.SyncFromUSB") ) ]_vars
    /\ [][ \A t \in Threads :
             ( /\ (pc[t] = "n_settings" /\ pc'[t] # pc[t] /\ stageErr')
                    => ~changed'[t].settings
               /\ (pc[t] = "n_wg" /\ pc'[t] # pc[t] /\ stageErr')
                    => (~changed'[t].wg /\ changed'[t].settings = changed[t].settings) )
          ]_vars

\* C15 witness: settings-service was restarted once, after both stage-ins, in
\* a return started by a detach.
C15_Witness ==
    /\ pc["detach"] = "n_clean" /\ Count(trace, Restart) = 1
    /\ Precedes(trace, "wireguard.SyncFromUSB", Restart)

\* ---------------------------------------------------------------------
\* Update staging (SpecUpd)

MdbPush == "LPush scooter:update:mdb"

\* the main-board update files of the directory handed to ProcessUpdates
MdbEntries == { upd.entries[i] : i \in { j \in 1..Len(upd.entries) : KindOf(upd.entries[j]) = "mdb" } }

\* positions in the call's operations where op was run on the file
OpsFor(name, op) == { i \in 1..Len(upd.ops) : upd.ops[i].file = name /\ upd.ops[i].op = op }

\* op was run on the file and succeeded
Done(name, op) == \E i \in OpsFor(name, op) : upd.ops[i].ok

\* op was run on the file and failed
Failed(name, op) == \E i \in OpsFor(name, op) : ~upd.ops[i].ok

\* every push for the file comes after its successful copy and fsync
PushAfterSync(name) ==
    \A i \in OpsFor(name, MdbPush) :
        \E j \in OpsFor(name, "io.Copy"), k \in OpsFor(name, "out.Sync") :
            j < k /\ k < i /\ upd.ops[j].ok /\ upd.ops[k].ok

\* the messages that reached scooter:update:mdb for the file
Messages(name) == { i \in OpsFor(name, MdbPush) : upd.ops[i].ok }

\* C16: with the DBC interface not enabled (its enable failed), every
\* main-board update file of system-update whose own copy, fsync and push
\* succeed is still copied to /data/ota and queued on scooter:update:mdb,
\* whatever else the directory holds.
C16_MdbStagedDespiteDbcDown ==
    (upd.called /\ ~upd.enabled /\ \A n \in MdbEntries : upd.out[n] = "ok")
        => \A n \in MdbEntries :
               Done(n, "io.Copy") /\ Done(n, "out.Sync") /\ Done(n, MdbPush)

\* C18 as stated: a push only after the successful copy and fsync, none
\* when the copy or the fsync failed, and exactly one message for a file
\* that was copied.
C18_ExactlyOneMessage ==
    upd.called =>
        \A n \in MdbEntries :
            /\ PushAfterSync(n)
            /\ (Failed(n, "io.Copy") \/ Failed(n, "out.Sync")) => OpsFor(n, MdbPush) = {}
            /\ (Done(n, "io.Copy") /\ Done(n, "out.Sync")) => Cardinality(Messages(n)) = 1

\* C18, amended: a push only after the successful copy and fsync, none
\* when the copy or the fsync failed; a copied file is pushed exactly once,
\* which leaves one message when the push succeeds and none when it fails.
C18_PushAfterSync ==
    upd.called =>
        \A n \in MdbEntries :
            /\ PushAfterSync(n)
            /\ (Failed(n, "io.Copy") \/ Failed(n, "out.Sync")) => OpsFor(n, MdbPush) = {}
            /\ (Done(n, "io.Copy") /\ Done(n, "out.Sync")) =>
                   /\ Cardinality(OpsFor(n, MdbPush)) = 1
                   /\ Cardinality(Messages(n)) = IF upd.out[n] = "pushFail" THEN 0 ELSE 1

\* one file copied, synced and queued, and another whose fsync failed
C18_Witness ==
    /\ upd.called
    /\ \E n \in MdbEntries : Done(n, "io.Copy") /\ Done(n, "out.Sync") /\ Done(n, MdbPush)
    /\ \E n \in MdbEntries : Done(n, "io.Copy") /\ Failed(n, "out.Sync")

\* ---------------------------------------------------------------------
\* DBC link lifecycle

\* e2 is the event right after an e1 in the trace
Follows(tr, e1, e2) == \E i \in 1..(Len(tr) - 1) : tr[i] = e1 /\ tr[i + 1] = e2

\* Enable ran keycard.sh and the script brought the link up
BroughtUp(tr) == Follows(tr, "dbc.Enable", "keycard.sh:ok")

\* Disable ran keycard.sh to take the link down
TeardownRun(tr) ==
    Follows(tr, "dbc.Disable", "keycard.sh:ok") \/ Follows(tr, "dbc.Disable", "keycard.sh:fail")

\* C17: a return to normal in which Enable brought the DBC link up has run
\* the teardown by the time it has published its closing idle.
C17_TeardownBeforeIdle ==
    (BroughtUp(trace) /\ Has(trace, "return:nil")) => TeardownRun(trace)

\* ---------------------------------------------------------------------
\* Cold start

\* handleModeChange has returned without a transition on a request that
\* asks for no UMS (normal, or nothing) while the gadget is in normal mode
HandledNoUMS ==
    /\ pc["bus"] = "ret" /\ req \in {"normal", ""}
    /\ prevMode["bus"] = "normal" /\ trace = << >>

\* C20: once the daemon has handled a request that asks for no UMS while
\* in normal mode, as on a cold start, the published status is idle.
C20_ColdStartIdle == HandledNoUMS => status = "idle"

\* ---------------------------------------------------------------------
\* Shutdown (SpecStop)

\* a transition has started and has not reached its return
InFlight == trace # << >> /\ ~Returned(trace)

\* C19: when Run has returned and the process has exited, no transition
\* is left short of its end.
C19_TransitionFinishesBeforeExit == run.exited => ~InFlight

\* ---------------------------------------------------------------------
\* Settings stage-in (SpecSett)

C23_NotEnabledAndIdempotent ==
    /\ dbc.servers <= 1
    /\ \A i \in 1..Len(dbc.hist) :
          LET c == dbc.hist[i]
              after == IF i < Len(dbc.hist) THEN dbc.hist[i + 1].serversBefore
                       ELSE dbc.servers
          IN  /\ (c.op \in {"CopyFile", "RunCommand"} /\ ~c.wasEnabled)
                    => (c.err = "not enabled" /\ c.ops = << >>)
              /\ (c.op = "Enable" /\ c.wasEnabled)
                    => (c.err = "" /\ c.ops = << >> /\ after = c.serversBefore)

\* a refused CopyFile, then an Enable that succeeds and an Enable repeated
\* while enabled
C23_Witness ==
    /\ Len(dbc.hist) = 3 /\ dbcEnabled /\ dbc.servers = 1
    /\ dbc.hist[1].op = "CopyFile" /\ ~dbc.hist[1].wasEnabled
    /\ dbc.hist[2].op = "Enable" /\ ~dbc.hist[2].wasEnabled
    /\ dbc.hist[3].op = "Enable" /\ dbc.hist[3].wasEnabled

\* ---------------------------------------------------------------------
\* Disk clean (SpecDisk)

\* a return to normal that found the gadget in ums has returned
LeftUMS(tr) ==
    /\ Len(tr) > 0 /\ tr[1] = "switchToNormal"
    /\ Has(tr, "status:processing") /\ Returned(tr)

\* the stage-ins, then the clean, then the unmount
CleanInPlace(tr) ==
    InOrder(tr, 1, Len(tr), << {"settings.CopyFromUSB"}, {"wireguard.SyncFromUSB"},
                               {"update.ProcessUpdates"}, {"maps.ProcessMaps"},
                               {"CleanDrive"}, Unmounts >>, 1)

\* C24 as stated: every return to normal that took the gadget out of ums
\* has cleaned the disk after the stage-ins and before the unmount, and no
\* UMS session shows files a host wrote in an earlier session.
C24_CleanEveryReturn ==
    /\ LeftUMS(trace) => CleanInPlace(trace)
    /\ ~(currentMode = "ums" /\ hostFiles = "earlier")

\* C24, amended: a return to normal that took the gadget out of ums and
\* mounted the image has cleaned the disk exactly once, after the
\* stage-ins and before the unmount, and a clean that returned no error
\* leaves no host file on the disk; when the mount failed nothing was
\* cleaned and the files of the session are still on the disk.
C24_CleanAfterMount ==
    /\ (LeftUMS(trace) /\ Has(trace, "mount:ok"))
          => (CleanInPlace(trace) /\ Count(trace, "CleanDrive") = 1)
    /\ (LeftUMS(trace) /\ Has(trace, "mount:fail"))
          => (~Has(trace, "CleanDrive") /\ hostFiles # "current")
    /\ \A t \in Threads : (pc[t] = "n_unmount" /\ ~stageErr) => hostFiles = "none"

\* a return to normal from ums has mounted, staged in, cleaned, unmounted
\* and returned, and the disk holds no host file
C24_Witness ==
    /\ pc["bus"] = "ret" /\ LeftUMS(trace) /\ Has(trace, "mount:ok")
    /\ CleanInPlace(trace) /\ Has(trace, "unmount:ok")
    /\ hostFiles = "none" /\ status = "idle"

\* ---------------------------------------------------------------------
\* Monitor

\* C25: the monitor samples the UDC state only after reading gadget mode
\* ums; a sample that is not configured with wasConfigured set sends one
\* detach (dropped when the channel is full) and clears wasConfigured; a
\* configured sample sets wasConfigured and sends nothing; any other
\* sample changes nothing; wasConfigured is cleared otherwise only by a
\* tick that reads a mode other than ums, and nothing else sends a detach.
C25_MonitorEmits ==
    [][ /\ (monPc = "wait" /\ monPc' = "sample") => currentMode = "ums"
        /\ (monPc = "sample" /\ monPc' # "sample") =>
              IF udcConfigured
              THEN wasConfigured' /\ detachCh' = detachCh
              ELSE IF wasConfigured
              THEN /\ ~wasConfigured'
                   /\ detachCh' = IF detachCh < DetachChCap THEN detachCh + 1 ELSE detachCh
              ELSE ~wasConfigured' /\ detachCh' = detachCh
        /\ (detachCh' > detachCh) =>
              (monPc = "sample" /\ ~udcConfigured /\ wasConfigured)
        /\ (wasConfigured /\ ~wasConfigured') =>
              \/ (monPc = "sample" /\ ~udcConfigured)
              \/ (monPc = "wait" /\ monPc' = "wait" /\ currentMode # "ums")
        /\ (~wasConfigured /\ wasConfigured') => (monPc = "sample" /\ udcConfigured)
      ]_vars

\* the host was seen and has gone: the detach is in the channel
C25_Witness ==
    /\ detachCh = 1 /\ ~wasConfigured /\ ~udcConfigured
    /\ monPc = "wait" /\ currentMode = "ums"

\* C26: the detach channel never holds more than one event; a sample is
\* never kept waiting by the channel, whoever holds the lock; and a sample
\* that finds the channel full drops its event and ends the tick.
C26_ChannelBounded ==
    /\ [](detachCh <= 1)
    /\ [](monPc = "sample" => ENABLED MonSample)
    /\ [][ (monPc = "sample" /\ monPc' # "sample" /\ detachCh = DetachChCap)
              => (detachCh' = detachCh /\ monPc' = "wait") ]_vars

\* the detach consumer waits for the lock the bus callback holds, an
\* event is pending, and the monitor has gone on to its next tick
C26_Witness ==
    /\ pc["detach"] = "lock" /\ mu = "bus"
    /\ detachCh = 1 /\ monPc = "wait" /\ ~wasConfigured /\ ~udcConfigured
    /\ currentMode = "ums"

\* ---------------------------------------------------------------------
\* Locks and monitor loops (SpecLock)

WaitsS(g) == lk.pc[g] = "s_wait"
WaitsC(g) == lk.pc[g] \in {"c_wait", "c_wait_start", "c_wait_stop"}

\* g waits for a lock that another goroutine holds
Blocked(g) == (WaitsS(g) /\ lk.smu # "free") \/ (WaitsC(g) /\ lk.cmu # "free")

\* the goroutine holding the lock g waits for
HolderFor(g) == IF WaitsS(g) THEN lk.smu ELSE lk.cmu

\* C27: no monitor loop waits for or holds Service.mu; no goroutine waits
\* for Service.mu while holding Controller.mu; whoever waits for a held
\* lock waits for a goroutine that is running, or that itself waits for a
\* lock whose holder is running; and a monitor loop at its send is never
\* held up by the detach channel.
C27_NoDeadlock ==
    /\ \A l \in Loops : lk.smu # l /\ ~WaitsS(l)
    /\ \A g \in Goroutines : lk.cmu = g => (~WaitsS(g) /\ ~WaitsC(g))
    /\ \A g \in Goroutines :
          Blocked(g) => \/ ~Blocked(HolderFor(g))
                        \/ ~Blocked(HolderFor(HolderFor(g)))
    /\ \A l \in Loops : lk.pc[l] = "sample" => ENABLED LkSample(l)

\* detachLoop waits for Service.mu, which the bus callback holds while it
\* waits for Controller.mu, which a monitor loop holds; an event is pending
C27_Witness ==
    /\ lk.pc["detach"] = "s_wait" /\ lk.smu = "bus"
    /\ lk.pc["bus"] = "c_wait" /\ lk.cmu \in Loops
    /\ lk.ch = 1

\* C28: at most one monitor loop waits on a stop channel that is still
\* open, and a loop waiting after its own stop channel (the one made by
\* the StartMonitoring that started it) was closed waits on a closed
\* channel, so that it terminates.
C28_OneLoop ==
    /\ Cardinality({ l \in Loops : lk.pc[l] = "select" /\ lk.sel[l] \notin lk.closed }) <= 1
    /\ \A i \in 1..MaxStarts :
          (i \in lk.closed /\ lk.pc[LoopName[i]] = "select")
              => lk.sel[LoopName[i]] \in lk.closed

\* ---------------------------------------------------------------------
\* Requests and detach events that are dropped (Spec)

\* the request in hand is normal while the gadget is in normal mode, or is
\* no mode at all
NoOpRequest ==
    \/ req = "normal" /\ currentMode = "normal"
    \/ req \notin {"ums", "ums-by-dbc", "normal"}

\* C29: handleModeChange called with normal in normal mode, or with a
\* value that is none of ums, ums-by-dbc and normal (the empty string
\* included), returns at once: the gadget mode, umsModeType, detachCount,
\* the disk, the published status, the kernel modules, the DBC interface
\* and the detach channel are as before and no operation was invoked.
C29_NoOpRequest ==
    [][ (pc["bus"] = "locked" /\ NoOpRequest /\ pc'["bus"] # "locked")
          => /\ pc'["bus"] = "ret"
             /\ trace' = << >>
             /\ UNCHANGED << currentMode, etherLoaded, msLoaded, umsModeType, detachCount,
                             mounted, diskFiles, hostFiles, status, dbcEnabled, dbcLink,
                             detachCh, stageErr >> ]_vars

\* an unknown value was handled in ums mode and the call is returning
C29_Witness ==
    /\ pc["bus"] = "ret" /\ req \in {"bogus", ""} /\ prevMode["bus"] = "ums"
    /\ currentMode = "ums" /\ status = "active" /\ trace = << >>

\* C30: onDeviceDetached called while the gadget is not in ums mode
\* returns at once: detachCount, umsModeType and the status are as before,
\* switchToNormal is not entered and nothing is published.
C30_DetachDropped ==
    [][ (pc["detach"] = "locked" /\ currentMode # "ums" /\ pc'["detach"] # "locked")
          => /\ pc'["detach"] = "ret"
             /\ UNCHANGED << currentMode, etherLoaded, msLoaded, umsModeType, detachCount,
                             mounted, diskFiles, hostFiles, status, dbcEnabled, dbcLink,
                             trace, stageErr >> ]_vars

\* a detach event was handled in normal mode and the call is returning
\* without having entered doSwitchToNormal
C30_Witness ==
    /\ pc["detach"] = "ret" /\ prevMode["detach"] = ""
    /\ currentMode = "normal" /\ umsModeType = "" /\ detachCount = 0

\* ---------------------------------------------------------------------
\* WireGuard stage-in, the changed result (SpecWg)

\* the local *.conf files a run wrote or removed
WgTouched == { n \in WgNames : IsConf(n) /\ wg.local[n] # wg.before[n] }

C32_NoStaleCount ==
    [][ (detachCount' = detachCount + 1) => ~seen.oldHeld ]_vars

\* C33: in ums mode the monitor emits a detach event only when its
\* wasConfigured was set by a sample taken since the gadget last entered
\* ums.
C33_ConfiguredThisSession ==
    [][ (monPc = "sample" /\ currentMode = "ums" /\ wasConfigured /\ ~wasConfigured')
          => seen.cfgHere ]_vars

\* ---------------------------------------------------------------------
\* Modules and mode (SpecCtl)

\* C34: between SwitchMode calls g_ether is loaded exactly when
\* currentMode is normal and g_mass_storage exactly when it is ums, also
\* after a call that returned the error of a failed modprobe.
C34_ModuleMatchesMode ==
    /\ etherLoaded <=> (currentMode = "normal")
    /\ msLoaded <=> (currentMode = "ums")

\* ---------------------------------------------------------------------
\* The needDBC scan (Spec)

\* C35: when switchToNormal reaches its stage-ins with a file on the disk
\* that ProcessUpdates or ProcessMaps hands to the DBC interface (a
\* librescoot-dbc update with suffix .mender or .delta, or a map file),
\* needDBC is TRUE and Enable was called.
C35_ScanCoversDbcFiles ==
    \A t \in Threads :
        (pc[t] = "n_updates" /\ diskFiles \cap {"dbc", "dbcDelta", "map"} # {})
            => (needDBC[t] /\ Has(trace, "dbc.Enable"))

\* ---------------------------------------------------------------------
\* Status and disk while the lock is free (Spec)

\* C36: whenever Service.mu is free and a status has been published, the
\* status is active in ums mode and idle in normal mode; preparing and
\* processing are seen only while a transition holds the lock.
C36_StatusMatchesMode ==
    (mu = "free" /\ status # "none")
        => status = (IF currentMode = "ums" THEN "active" ELSE "idle")

\* C37 as stated: whenever Service.mu is free the image is unmounted.
C37_UnmountedWhenFree == mu = "free" => ~mounted

\* C37, amended: a transition that mounted the image has called Unmount
\* before it releases Service.mu, whether it returns nil or an error, and
\* when no Unmount of the transition failed the image is unmounted at the
\* release.
C37_UnmountCalledBeforeRelease ==
    [][ (mu # "free" /\ mu' = "free")
          => /\ Has(trace, "mount:ok")
                   => (Has(trace, "unmount:ok") \/ Has(trace, "unmount:fail"))
             /\ (Has(trace, "unmount:ok") /\ ~Has(trace, "unmount:fail")) => ~mounted' ]_vars

\* switchToUMS returns the error of SwitchMode after it mounted and
\* unmounted the image
C37_Witness ==
    /\ pc["bus"] = "ret" /\ mu = "bus"
    /\ Has(trace, "mount:ok") /\ Has(trace, "unmount:ok") /\ Has(trace, "return:error")
    /\ ~mounted

\* ---------------------------------------------------------------------
\* DBC interface, enabled against link and server (SpecDbc)

\* C38: after any calls of Enable and Disable, whatever keycard.sh and the
\* reachability probe did, the interface is enabled exactly when the link
\* to the DBC is up and the HTTP file server is running.
C38_EnabledIffLinkAndServer ==
    dbcEnabled <=> (dbcLink /\ dbc.servers > 0)

\* ---------------------------------------------------------------------
\* Update and map files against the wipe (SpecStage)

\* the map file a host may leave in maps
MapFile == "map.mbtiles"

\* the update files of a directory listing
UpdateFiles(entries) ==
    { entries[i] : i \in { k \in 1..Len(entries) : KindOf(entries[k]) # "skip" } }

\* the update files whose LPush succeeded: copied and queued
Queued(ops) ==
    { ops[i].file : i \in { k \in 1..Len(ops) :
                              /\ ops[k].op \in {"LPush scooter:update:mdb",
                                                 "LPush scooter:update:dbc"}
                              /\ ops[k].ok } }

\* the tail of switchToNormal on the mounted image: ProcessUpdates,
\* ProcessMaps (their errors are logged), then CleanDrive, which removes
\* every entry unless it fails.  files: the update and map files the host
\* left; delivered: those copied (and queued); left: those still on the
\* image afterwards.
StageIns(entries, maps, enabled, out, mapsOk, cleanOk) ==
    LET files == UpdateFiles(entries) \cup (IF maps THEN {MapFile} ELSE {})
        u == ProcessUpdates(entries, enabled, out)
        m == ProcessMaps(IF maps THEN {"map"} ELSE {}, enabled, mapsOk)
    IN  [files |-> files,
         delivered |-> Queued(u.ops) \cup
                       (IF maps /\ Has(m.calls, "dbc.CopyFile") THEN {MapFile} ELSE {}),
         left |-> IF cleanOk THEN {} ELSE files,
         err |-> u.err \/ m.err]

\* the stage-ins and the wipe exercised on their own, with every
\* directory, the interface enabled or not, and every outcome
StageCall(entries, maps, enabled, out, mapsOk, cleanOk) ==
    LET r == StageIns(entries, maps, enabled, out, mapsOk, cleanOk)
    IN  /\ ~stage.called
        /\ stage' = [called |-> TRUE, files |-> r.files, delivered |-> r.delivered,
                     left |-> r.left, err |-> r.err, cleanOk |-> cleanOk]
        /\ UNCHANGED << kernel, monitor, counters, locals, mounted, mu, pc, diskFiles,
                        dbcEnabled, dbcLink, status, trace, detachCh, ctl, hostFiles, lk,
                        cv, upd, run, sett, wg, dbc, stageErr >>

StageNext ==
    \E entries \in Dirs, maps \in BOOLEAN, enabled \in BOOLEAN,
       mapsOk \in BOOLEAN, cleanOk \in BOOLEAN :
        \E out \in { f \in [{ entries[i] : i \in 1..Len(entries) } ->
                              MdbOutcomes \cup DbcOutcomes] :
                        \A n \in DOMAIN f : f[n] \in OutcomesOf(n) } :
            StageCall(entries, maps, enabled, out, mapsOk, cleanOk)

SpecStage == Init /\ [][StageNext]_vars

\* C39: after the stage-ins and the wipe, every update file and map file
\* the host left was delivered or is still on the image.
C39_NoFileLost ==
    stage.called => \A f \in stage.files : f \in stage.delivered \/ f \in stage.left

\* ---------------------------------------------------------------------
\* Convergence after an automatic return (SpecConv)
\*
\* The orchestrator with the bus closed into a loop.  Module, mount, unmount
\* and bus operations succeed here, so a transition is one step under
\* Service.mu; other parties write usb.mode until the orchestrator has
\* published its own mode=normal, and not afterwards.

\* the rest of the daemon, which these steps leave alone
cvFrame == << kernel, monitor, counters, locals, mounted, mu, pc, diskFiles, dbcEnabled,
              dbcLink, status, trace, detachCh, ctl, upd, run, sett, wg, dbc, lk, stage,
              hostFiles, stageErr >>

\* Controller.SwitchMode(target) with rmmod and modprobe succeeding
CvMode(c, target) ==
    SwitchMode(c.mode, c.mode = "normal", c.mode = "ums", target, TRUE, TRUE).mode

\* Service.switchToUMS(mode), nothing failing: preparing, the stage-outs,
\* active, SwitchMode("ums"), umsModeType := mode, detachCount := 0
CvSwitchToUMS(c, mode) ==
    [c EXCEPT !.status = "active", !.mode = CvMode(c, "ums"), !.type = mode, !.count = 0]

\* Service.switchToNormal(prevMode), nothing failing: SwitchMode("normal");
\* from a mode other than ums idle and return; else processing, the
\* stage-ins, umsModeType := "", idle
CvSwitchToNormal(c, prev) ==
    IF prev # "ums"
    THEN [c EXCEPT !.mode = CvMode(c, "normal"), !.status = "idle"]
    ELSE [c EXCEPT !.mode = CvMode(c, "normal"), !.status = "idle", !.type = ""]

\* another party writes usb.mode; the watcher will hand the value to the
\* callback
CvWrite(m) ==
    /\ ~cv.published /\ cv.ext < MaxExtWrites
    /\ cv' = [cv EXCEPT !.busMode = m, !.q = Append(@, m), !.ext = @ + 1]
    /\ UNCHANGED cvFrame

\* the watcher's goroutine calls handleModeChange with the next value
CvDeliver ==
    /\ cv.pc["bus"] = "idle" /\ cv.q # << >>
    /\ cv' = [cv EXCEPT !.pc["bus"] = "lock", !.req = Head(cv.q), !.q = Tail(@)]
    /\ UNCHANGED cvFrame

\* detachLoop receives an event and calls onDeviceDetached
CvRecv ==
    /\ cv.pc["detach"] = "idle" /\ cv.ch > 0
    /\ cv' = [cv EXCEPT !.pc["detach"] = "lock", !.ch = @ - 1]
    /\ UNCHANGED cvFrame

\* s.mu.Lock()
CvLock(t) ==
    /\ cv.pc[t] = "lock" /\ cv.mu = "free"
    /\ cv' = [cv EXCEPT !.pc[t] = "locked", !.mu = t]
    /\ UNCHANGED cvFrame

\* handleModeChange under the lock
CvHandle ==
    /\ cv.pc["bus"] = "locked"
    /\ LET d == Dispatch(cv.mode, cv.req)
           c == [cv EXCEPT !.pc["bus"] = "ret"]
       IN  cv' = IF d = "u_preparing" THEN CvSwitchToUMS(c, cv.req)
                 ELSE IF d = "n_switch" THEN CvSwitchToNormal(c, cv.mode)
                 ELSE c
    /\ UNCHANGED cvFrame

\* A faulty handler whose doSwitchToNormal leaves detachCount as it is.
CvDetachedNoReset ==
    /\ cv.pc["detach"] = "locked"
    /\ cv' = IF cv.mode # "ums"
             THEN [cv EXCEPT !.pc["detach"] = "ret"]
             ELSE LET c == [cv EXCEPT !.count = @ + 1]
                  IN  IF DetachDispatch(cv.type, cv.count + 1) = "d_switch"
                      THEN [CvSwitchToNormal(c, cv.mode) EXCEPT !.pc["detach"] = "d_publish"]
                      ELSE [c EXCEPT !.pc["detach"] = "ret"]
    /\ UNCHANGED cvFrame

\* onDeviceDetached under the lock; when it calls doSwitchToNormal:
\* switchToNormal(GetCurrentMode()), detachCount := 0, then the publish
CvDetached ==
    /\ cv.pc["detach"] = "locked"
    /\ cv' = IF cv.mode # "ums"
             THEN [cv EXCEPT !.pc["detach"] = "ret"]
             ELSE LET c == [cv EXCEPT !.count = @ + 1]
                  IN  IF DetachDispatch(cv.type, cv.count + 1) = "d_switch"
                      THEN [CvSwitchToNormal(c, cv.mode) EXCEPT !.count = 0,
                                                               !.pc["detach"] = "d_publish"]
                      ELSE [c EXCEPT !.pc["detach"] = "ret"]
    /\ UNCHANGED cvFrame

\* s.publisher.Set("mode", "normal", ipc.Sync()): the field is written
\* and the watcher will hand the value to the callback.  contended: the
\* request the bus callback held at the lock meanwhile.
CvPublish ==
    /\ cv.pc["detach"] = "d_publish"
    /\ cv' = [cv EXCEPT !.pc["detach"] = "ret", !.busMode = "normal",
                        !.q = Append(@, "normal"), !.published = TRUE,
                        !.contended = IF cv.pc["bus"] = "lock" THEN cv.req ELSE @]
    /\ UNCHANGED cvFrame

\* the deferred s.mu.Unlock()
CvUnlock(t) ==
    /\ cv.pc[t] = "ret" /\ cv.mu = t
    /\ cv' = [cv EXCEPT !.pc[t] = "idle", !.mu = "free",
                        !.req = IF t = "bus" THEN "" ELSE @]
    /\ UNCHANGED cvFrame

\* a tick of monitorLoop that finds the gadget in ums goes on to sample
CvTick ==
    /\ ~cv.sampling /\ cv.mode = "ums"
    /\ cv' = [cv EXCEPT !.sampling = TRUE]
    /\ UNCHANGED cvFrame

\* the sample: nothing, or a detach event sent without blocking
CvSample ==
    /\ cv.sampling
    /\ \E send \in BOOLEAN :
         cv' = [cv EXCEPT !.sampling = FALSE,
                          !.ch = IF send /\ cv.ch < DetachChCap THEN cv.ch + 1 ELSE cv.ch]
    /\ UNCHANGED cvFrame

ConvNext ==
    \/ \E m \in {"ums", "normal"} : CvWrite(m)
    \/ CvDeliver
    \/ CvRecv
    \/ \E t \in Threads : CvLock(t)
    \/ CvHandle
    \/ CvDetached
    \/ CvPublish
    \/ \E t \in Threads : CvUnlock(t)
    \/ CvTick
    \/ CvSample

\* the two goroutines and the watcher run when they can; the host and the
\* other writers of usb.mode are under no obligation
ConvFair ==
    /\ WF_vars(CvDeliver)
    /\ WF_vars(CvRecv)
    /\ \A t \in Threads : WF_vars(CvLock(t))
    /\ WF_vars(CvHandle)
    /\ WF_vars(CvDetached)
    /\ WF_vars(CvPublish)
    /\ \A t \in Threads : WF_vars(CvUnlock(t))
    /\ WF_vars(CvSample)

SpecConv == Init /\ [][ConvNext]_vars /\ ConvFair

\* gadget in normal mode, no session type, no detach counted, idle, and
\* the mode field normal
Converged ==
    /\ cv.mode = "normal" /\ cv.type = "" /\ cv.count = 0
    /\ cv.status = "idle" /\ cv.busMode = "normal"

\* C40: once the orchestrator has published mode=normal after a detach
\* that made it leave ums, and nobody else writes the mode field again,
\* the system reaches Converged and stays there, whatever request waited
\* at the lock meanwhile and with the publication handed back to the
\* callback.
C40_Converges == cv.published ~> []Converged

\* a ums request waited at the lock while the automatic return ran, was
\* handled after it, and the system is at rest in the converged state
C40_Witness ==
    /\ cv.contended = "ums" /\ Converged
    /\ cv.q = << >> /\ cv.mu = "free" /\ cv.ch = 0 /\ ~cv.sampling
    /\ \A t \in Threads : cv.pc[t] = "idle"

====
